---- MODULE Spec2Model ----
(***************************************************************************)
(* rapidrows: the server lifecycle (APIServer.Start / Stop, datasources),  *)
(* the scheduled jobs, and the notification fan-out (notifDispatcher,      *)
(* notifWriter, serveStream), modelled as one state machine.                *)
(*                                                                         *)
(* Every goroutine of the program is a process of the model: the caller of *)
(* Start and Stop, one dispatcher and one fetcher per datasource that has  *)
(* streams, one HTTP handler per client connection, one goroutine per job  *)
(* run.  Go channels are sequences with a closed flag; a select with       *)
(* several ready cases is a nondeterministic choice.                       *)
(***************************************************************************)
EXTENDS Integers, Sequences, FiniteSets, TLC

(***************************************************************************)
(* Configuration.  The stream section is cfgTestStreamsBasic of            *)
(* streams_test.go, with a second datasource carrying one stream so that   *)
(* two dispatchers exist, and a third datasource without streams.         *)
(***************************************************************************)
Datasources == <<"ds1", "ds2", "ds3">>

DSNames == {Datasources[i] : i \in 1..Len(Datasources)}

Streams ==
    [uri \in {"/ws", "/sse", "/sse2", "/ws2"} |->
        CASE uri = "/ws"   -> [type |-> "websocket", channel |-> "chanws",  ds |-> "ds1"]
          [] uri = "/sse"  -> [type |-> "sse",       channel |-> "chansse", ds |-> "ds1"]
          [] uri = "/sse2" -> [type |-> "sse",       channel |-> "chansse", ds |-> "ds1"]
          [] uri = "/ws2"  -> [type |-> "websocket", channel |-> "chanws",  ds |-> "ds2"]]

URIs == DOMAIN Streams

\* startNotifDispatchers: the channels each datasource needs (de-duplicated)
ds2pgchans == [d \in {Streams[u].ds : u \in URIs} |->
                  {Streams[u].channel : u \in {v \in URIs : Streams[v].ds = d}}]

DispDS == DOMAIN ds2pgchans

\* the jobs of the configuration: exec jobs on datasource ds1
Jobs == {"job1"}

JobDS == [j \in Jobs |-> "ds1"]

\* client connections (HTTP requests on stream URIs)
Clients == {1, 2}

\* const notifWriterBacklog = 16
notifWriterBacklog == 16

\* newNotifDispatcher: in: make(chan pgconn.Notification, 64)
inCap == 64

\* newNotifDispatcher: cmd: make(chan notifDisptacherCmd, 1)
cmdCap == 1

(***************************************************************************)
(* Bounds of the model.                                                    *)
(***************************************************************************)
\* notifications the database sends in the backlog scenarios (one more than
\* the backlog, so that a subscriber that never reads is evicted)
BacklogNotifs == 17

\* notifications the database sends in the other scenarios
FewNotifs == 2

\* notifications fetched and not yet dispatched (the in channel holds up to
\* inCap; the model lets the fetcher run this far ahead of the dispatcher)
MaxIn == 1

NoClients == [c \in Clients |-> "none"]

(***************************************************************************)
(* A scenario fixes the inputs of one run: which client connects to which  *)
(* stream, how many notifications the database sends and on which          *)
(* (datasource, channel), whether Stop is called, whether startup steps    *)
(* may fail, whether jobs fire, and which clients misbehave (disconnect,   *)
(* send a data frame).                                                     *)
(***************************************************************************)
Scenarios ==
    { \* a single subscriber and enough notifications to overflow its queue
      [name |-> "backlog-sse", clients |-> [NoClients EXCEPT ![1] = "/sse"],
       notifs |-> BacklogNotifs, chans |-> {<<"ds1", "chansse">>},
       stop |-> FALSE, fail |-> FALSE, jobs |-> FALSE, env |-> {}],
      [name |-> "backlog-ws", clients |-> [NoClients EXCEPT ![1] = "/ws"],
       notifs |-> BacklogNotifs, chans |-> {<<"ds1", "chanws">>},
       stop |-> FALSE, fail |-> FALSE, jobs |-> FALSE, env |-> {}],
      \* two subscribers of one channel, the first of which misbehaves
      [name |-> "fanout", clients |-> [NoClients EXCEPT ![1] = "/sse", ![2] = "/sse2"],
       notifs |-> FewNotifs, chans |-> {<<"ds1", "chansse">>},
       stop |-> FALSE, fail |-> FALSE, jobs |-> FALSE, env |-> {1}],
      \* a misbehaving websocket client, notifications on two channels
      [name |-> "badclient", clients |-> [NoClients EXCEPT ![1] = "/ws"],
       notifs |-> FewNotifs, chans |-> {<<"ds1", "chansse">>, <<"ds1", "chanws">>},
       stop |-> FALSE, fail |-> FALSE, jobs |-> FALSE, env |-> {1}],
      \* shutdown with a live subscriber
      [name |-> "stop-ws", clients |-> [NoClients EXCEPT ![1] = "/ws"],
       notifs |-> FewNotifs, chans |-> {<<"ds1", "chanws">>},
       stop |-> TRUE, fail |-> FALSE, jobs |-> FALSE, env |-> {}],
      [name |-> "stop-sse", clients |-> [NoClients EXCEPT ![1] = "/sse"],
       notifs |-> FewNotifs, chans |-> {<<"ds1", "chansse">>},
       stop |-> TRUE, fail |-> FALSE, jobs |-> FALSE, env |-> {}],
      \* shutdown with a misbehaving subscriber (and no notification)
      [name |-> "stop-bad-ws", clients |-> [NoClients EXCEPT ![1] = "/ws"],
       notifs |-> 0, chans |-> {},
       stop |-> TRUE, fail |-> FALSE, jobs |-> FALSE, env |-> {1}],
      [name |-> "stop-bad-sse", clients |-> [NoClients EXCEPT ![1] = "/sse"],
       notifs |-> 0, chans |-> {},
       stop |-> TRUE, fail |-> FALSE, jobs |-> FALSE, env |-> {1}],
      \* startup failures, jobs, shutdown, notifications on both datasources
      [name |-> "lifecycle", clients |-> NoClients,
       notifs |-> FewNotifs, chans |-> {<<"ds1", "chanws">>, <<"ds2", "chanws">>},
       stop |-> TRUE, fail |-> TRUE, jobs |-> TRUE, env |-> {}] }

VARIABLES
    sc,         \* the scenario of this run (never changes)
    \* --- APIServer, datasources, cron ---
    startPc,    \* position of the caller in Start
    startErr,   \* what Start returned: "none" (not returned), "nil" or an error
    dsIdx,      \* datasources.start: index of the source being connected
    attempted,  \* history: the sources dsconnect was called on, in order
    pool,       \* datasources.pools: source -> "none" | "open" | "closed"
    bgctx,      \* a.bgctx: "none" | "live" | "cancelled"
    cron,       \* a.c: "new" | "running" | "stopped"
    srv,        \* a.srv and its http.Server: "nil" | "serving" | "closing"
    stopPc,     \* position of the caller in Stop
    stopErr,    \* what Stop returned: "none" (not returned), "nil" or an error
    stopLog,    \* history: the teardown steps the last call of Stop that
                \*   began a teardown has performed, in order
    jobPc,      \* job -> "idle" | "running" | "holding" (holds a pool connection)
    panics      \* history: the panics raised so far (a set)

VARIABLES
    \* --- notifDispatcher, per datasource that has streams ---
    ndStored,   \* a.nd: the datasources whose dispatcher is stored in the map
    nd,         \* datasource -> [conn, stopping, cmd, cmdClosed, inq, inClosed,
                \*                c2ws, disp, fetch]
    nsent,      \* notifications the database has sent so far (the next payload)
    stopCur,    \* stopNotifDispatchers: the dispatcher nd.stop() is running on
    stopSeen,   \* stopNotifDispatchers: the dispatchers already visited
    \* --- notifWriter and serveStream, per client connection ---
    nw,         \* client -> [q, closes, qClosed]: the notifWriter
    h,          \* client -> [pc, err, ws, lctx, rd, gone, early]: the handler
                \*   goroutine (early: loopSSE is at its first select and
                \*   payloads were queued when it started)
    offered,    \* history: client -> payloads the dispatcher passed to accept
    written,    \* history: client -> payloads the loop wrote to the client
    fanned,     \* history: client -> payloads the dispatcher took from nd.in on
                \*   the client's channel after applying its register command
    regOrder    \* history: the writers in the order their register was applied

VARIABLES
    \* --- APIServer.serve: requests to the endpoints, and the cache ---
    wl,         \* the workload of this run (never changes)
    now,        \* time.Now(), in ticks
    db,         \* the version of the data the queries read
    cache,      \* the cache behind rti.CacheGet/CacheSet: key -> entry
    rq,         \* handler -> [pc, e, req, params, useCache, key, rows, ts, hit,
                \*             status, body, ops, at]: a request being served
    nreq,       \* history: the number of requests received
    conns,      \* datasource -> the connections acquired from its pool by
                \* the handlers and the jobs and not released
    runs,       \* run -> [pc, job, ip, js, out, failed]: a run of a job
    cv          \* [cfg, called, r, valid, new]: a configuration and what
                \* Validate, IsValid and NewAPIServer returned for it

lifeVars == <<startPc, startErr, dsIdx, attempted, pool, bgctx, cron, srv,
              stopPc, stopErr, stopLog, jobPc>>

ndVars == <<ndStored, nd, nsent, stopCur, stopSeen>>

subVars == <<nw, h, offered, written, fanned, regOrder>>

reqVars == <<wl, now, db, cache, rq, nreq, conns, runs>>

\* everything but the requests: the lifecycle and the streams
streamVars == <<sc, lifeVars, ndVars, subVars, panics>>

vars == <<streamVars, reqVars, cv>>

(***************************************************************************)
(* Values.                                                                 *)
(***************************************************************************)
\* a notification: pgconn.Notification's Channel and Payload, and (history)
\* the clients that were connected when the fetcher received it
NoNotif == [channel |-> "", payload |-> 0, after |-> {}]

\* a client is connected once its handler is in the transport loop: the
\* websocket is upgraded, or the initial SSE comment is sent
connected(c, hh) == hh[c].pc = "loop"

\* a faulty command: the channel is ignored, every command is for chansse
Cmd_oneChannel(act, channel, writer) ==
    [act |-> act, channel |-> "chansse", writer |-> writer]

\* const ( actRegister; actUnregister; actStop ) and notifDisptacherCmd
Cmd(act, channel, writer) == [act |-> act, channel |-> channel, writer |-> writer]

\* newNotifDispatcher, before start
newNotifDispatcher(d) ==
    [conn |-> "none", stopping |-> FALSE,
     cmd |-> <<>>, cmdClosed |-> FALSE,
     inq |-> <<>>, inClosed |-> FALSE,
     c2ws |-> [ch \in ds2pgchans[d] |-> <<>>],
     disp |-> [at |-> "off", n |-> NoNotif, i |-> 0],
     fetch |-> [at |-> "off", n |-> NoNotif]]

\* newNotifWriter: an open, empty queue
newNotifWriter == [q |-> <<>>, closes |-> 0, qClosed |-> FALSE]

newHandler == [pc |-> "idle", err |-> "none", ws |-> "none", lctx |-> FALSE,
               rd |-> "off", gone |-> FALSE, early |-> FALSE]

\* panics of goroutines nothing recovers: they end the process
Fatal == {"fetcher: send on closed channel", "stop: send on closed channel",
          "stop: close of closed channel"}

crashed == panics \cap Fatal # {}

(***************************************************************************)
(* Parameter values.                                                       *)
(*                                                                         *)
(* A Go string is the sequence of its bytes.  A float64 is the pair that   *)
(* math.Modf splits it into: the integer part i and the fractional part f  *)
(* (of the sign of the value), f counted in units of 1/FracUnits.          *)
(***************************************************************************)
\* the resolution of the fractional part: one unit is 5e-10
FracUnits == 2000000000

\* the 1e-9 of float2int, in units
Epsilon == 2

Float(i, f) == [t |-> "float64", i |-> i, f |-> f]

Abs(x) == IF x < 0 THEN 0 - x ELSE x

\* math.NaN() and math.Inf(sign): float64 values that are no number
NaN == [t |-> "float64", i |-> 0, f |-> 0, special |-> "NaN"]

Inf(sign) == [t |-> "float64", i |-> 0, f |-> 0, special |-> "Inf", sign |-> sign]

IsNaN(x) == "special" \in DOMAIN x /\ x.special = "NaN"

\* math.IsInf(x, 0)
IsInf(x) == "special" \in DOMAIN x /\ x.special = "Inf"

\* where x lies: below every number, among the numbers, above them
floatRank(x) == IF IsInf(x) THEN x.sign ELSE 0

\* f < g and f <= g on float64: false when either side is NaN
FloatLess(x, y) ==
    /\ ~IsNaN(x) /\ ~IsNaN(y)
    /\ IF IsInf(x) \/ IsInf(y) THEN floatRank(x) < floatRank(y)
       ELSE x.i < y.i \/ (x.i = y.i /\ x.f < y.f)

FloatLeq(x, y) ==
    /\ ~IsNaN(x) /\ ~IsNaN(y)
    /\ IF IsInf(x) \/ IsInf(y) THEN floatRank(x) <= floatRank(y)
       ELSE x.i < y.i \/ (x.i = y.i /\ x.f <= y.f)

\* a faulty float2int: the fractional part is dropped, whatever its size
float2int_trunc(x) == [ok |-> TRUE, i |-> x.i]

\* float2int: the integer part, if the fractional part is below 1e-9; for
\* NaN and the infinities math.Modf gives the fractional part NaN
float2int(x) ==
    IF ~IsNaN(x) /\ ~IsInf(x) /\ Abs(x.f) < Epsilon
    THEN [ok |-> TRUE, i |-> x.i]
    ELSE [ok |-> FALSE, i |-> 0]

\* int64(f) of a float64 that float2int accepts
int64(x) == x.i

isDigit(c) == c \in 48 .. 57

RECURSIVE digitsValue(_)
\* the value of a string of decimal digits
digitsValue(s) ==
    IF s = <<>> THEN 0
    ELSE 10 * digitsValue(SubSeq(s, 1, Len(s) - 1)) + (s[Len(s)] - 48)

RECURSIVE fracValue(_, _)
\* the value, in units, of the digits after the decimal point; scale is the
\* weight of the digit before s[1]
fracValue(s, scale) ==
    IF s = <<>> THEN 0
    ELSE (IF scale >= 10 THEN (s[1] - 48) * (scale \div 10)
                         ELSE ((s[1] - 48) * scale) \div 10)
         + fracValue(Tail(s), scale \div 10)

\* the position of the first "." of s, or Len(s) + 1
dotAt(s) ==
    IF \E k \in 1 .. Len(s) : s[k] = 46
    THEN CHOOSE k \in 1 .. Len(s) : s[k] = 46 /\ \A j \in 1 .. k - 1 : s[j] # 46
    ELSE Len(s) + 1

\* strings.ToLower on the bytes of s
ToLower(s) == [k \in 1 .. Len(s) |-> IF s[k] \in 65 .. 90 THEN s[k] + 32 ELSE s[k]]

\* strconv's special: "nan", and "inf" or "infinity" with an optional sign,
\* in any case
special(s) ==
    LET signed == s # <<>> /\ s[1] \in {43, 45}
        u == ToLower(IF signed THEN Tail(s) ELSE s)
    IN  IF u = <<110, 97, 110>> /\ ~signed THEN [ok |-> TRUE, f |-> NaN]
        ELSE IF u \in {<<105, 110, 102>>, <<105, 110, 102, 105, 110, 105, 116, 121>>}
        THEN [ok |-> TRUE, f |-> Inf(IF signed /\ s[1] = 45 THEN 0 - 1 ELSE 1)]
        ELSE [ok |-> FALSE, f |-> NaN]

\* strconv.ParseFloat(s, 64) on plain decimal text, [-]digits[.digits], and
\* on the special values
ParseFloat(s) ==
    IF special(s).ok THEN special(s) ELSE
    LET neg == s # <<>> /\ s[1] = 45
        u == IF neg THEN Tail(s) ELSE s
        d == dotAt(u)
        whole == SubSeq(u, 1, d - 1)
        frac == SubSeq(u, d + 1, Len(u))
        sign == IF neg THEN 0 - 1 ELSE 1
    IN  IF /\ whole # <<>>
           /\ \A k \in 1 .. Len(whole) : isDigit(whole[k])
           /\ \A k \in 1 .. Len(frac) : isDigit(frac[k])
        THEN [ok |-> TRUE,
              f |-> Float(sign * digitsValue(whole),
                          sign * fracValue(frac, FracUnits))]
        ELSE [ok |-> FALSE, f |-> Float(0, 0)]

\* strconv.ParseInt(s, 10, 64): [-]digits
ParseInt(s) ==
    LET neg == s # <<>> /\ s[1] = 45
        u == IF neg THEN Tail(s) ELSE s
    IN  IF u # <<>> /\ \A k \in 1 .. Len(u) : isDigit(u[k])
        THEN [ok |-> TRUE, i |-> (IF neg THEN 0 - 1 ELSE 1) * digitsValue(u)]
        ELSE [ok |-> FALSE, i |-> 0]

RECURSIVE flatten(_)
\* the concatenation of a sequence of sequences
flatten(ss) == IF ss = <<>> THEN <<>> ELSE Head(ss) \o flatten(Tail(ss))

\* the values of type any that reach the parameter engine and leave it
Nil == [t |-> "nil"]

String(s) == [t |-> "string", s |-> s]

Strings(a) == [t |-> "[]string", a |-> a]

Bool(b) == [t |-> "bool", b |-> b]

Int64(i) == [t |-> "int64", i |-> i]

\* a value that is not there: the ok = false of a map lookup
NotFound == [t |-> "notfound"]

(***************************************************************************)
(* The endpoints of the configuration the requests are served for.         *)
(*                                                                         *)
(* A Param is [name, in, required, type, enum, minimum, maximum,           *)
(* maxLength, pattern, minItems, maxItems, elemType].  A *float64 or *int   *)
(* is a sequence of length 0 (nil) or 1; a pattern is the set of the       *)
(* characters c of the regexp "[c...]+", the empty set for no pattern.     *)
(***************************************************************************)
Param(name, in, required, type) ==
    [name |-> name, in |-> in, required |-> required, type |-> type,
     enum |-> <<>>, minimum |-> <<>>, maximum |-> <<>>,
     maxLength |-> <<>>, pattern |-> {}, minItems |-> <<>>,
     maxItems |-> <<>>, elemType |-> ""]

\* the cache TTL of /movies (Endpoint.Cache), in ticks of the clock
CacheTTL == 1

\* an Endpoint is [uri, methods, impl, cache, params]; no methods: any method
\* an endpoint that is no script has no source
NoScript == <<>>

(***************************************************************************)
(* Scripts.  A JavaScript value is [tag, class, v]: the tag of qjs, the    *)
(* class of an object ("Error", "Array" or "Object") and a label for its   *)
(* content.  A script is a sequence of statements.                         *)
(***************************************************************************)
JSValue(tag, class, v) == [tag |-> tag, class |-> class, v |-> v]

JSUndefined == JSValue("undefined", "", "")

JSNull == JSValue("null", "", "")

JSString(s) == JSValue("string", "", s)

JSInt(s) == JSValue("int", "", s)

JSFloat64(s) == JSValue("float64", "", s)

JSBool(s) == JSValue("bool", "", s)

JSObject(s) == JSValue("object", "Object", s)

JSArray(s) == JSValue("object", "Array", s)

\* new Error(msg)
JSError(msg) == JSValue("object", "Error", msg)

\* c = $sys.acquire(args...)
Acquire(args) == [op |-> "acquire", args |-> args, v |-> JSUndefined]

\* c.exec(sql), on the connection object acquired last
Exec == [op |-> "exec", args |-> <<>>, v |-> JSUndefined]

\* $sys.result = v
SetResult(v) == [op |-> "result", args |-> <<>>, v |-> v]

\* throw v
Throw(v) == [op |-> "throw", args |-> <<>>, v |-> v]

\* $sys.result = (typeof g === "undefined") ? "fresh" : "seen"
ResultFromGlobal == [op |-> "readGlobal", args |-> <<>>, v |-> JSUndefined]

\* g = 1; $sys.leftover = 1
SetGlobal == [op |-> "setGlobal", args |-> <<>>, v |-> JSUndefined]

\* the sandbox of an invocation is [global, result, conns, obj, thrown,
\* taken, env]: its global variable, $sys.result, the map sctx.conns (a name
\* to the connection stored under it), the connection object the script
\* holds, what it threw, the connections it took and what the pools and
\* the database answered.
\* qjs.NewRuntime, NewContext, newScriptContext: nothing is defined, no
\* connection is held
newScriptContext ==
    [global |-> FALSE, result |-> JSUndefined,
     conns |-> [d \in DSNames |-> 0], obj |-> "", thrown |-> <<>>,
     taken |-> [d \in DSNames |-> 0], env |-> <<>>]

\* a script endpoint without parameters
ScriptEndpoint(uri, script) ==
    [uri |-> uri, methods |-> {"GET"}, impl |-> "javascript", cache |-> 0,
     tx |-> FALSE, script |-> script, params |-> <<>>]

ScriptEndpoints ==
    << \* the results a script can leave
       ScriptEndpoint("/r/none", <<>>),
       ScriptEndpoint("/r/null", <<SetResult(JSNull)>>),
       ScriptEndpoint("/r/string", <<SetResult(JSString("foo"))>>),
       ScriptEndpoint("/r/object", <<SetResult(JSObject("{a:1}"))>>),
       ScriptEndpoint("/r/array", <<SetResult(JSArray("[foo]"))>>),
       ScriptEndpoint("/r/int", <<SetResult(JSInt("5"))>>),
       ScriptEndpoint("/r/float", <<SetResult(JSFloat64("1.5"))>>),
       ScriptEndpoint("/r/bool", <<SetResult(JSBool("true"))>>),
       \* exceptions, with and without a result assigned before
       ScriptEndpoint("/t/string", <<Throw(JSString("boom"))>>),
       ScriptEndpoint("/t/error", <<Throw(JSError("boom"))>>),
       ScriptEndpoint("/t/null", <<Throw(JSNull)>>),
       ScriptEndpoint("/t/int", <<Throw(JSInt("5"))>>),
       ScriptEndpoint("/t/empty", <<Throw(JSString(""))>>),
       ScriptEndpoint("/t/undefined",
                      <<SetResult(JSString("foo")), Throw(JSUndefined)>>),
       ScriptEndpoint("/t/result-string",
                      <<SetResult(JSString("partial")), Throw(JSError("boom"))>>),
       ScriptEndpoint("/t/result-object",
                      <<SetResult(JSObject("{a:1}")), Throw(JSString("boom"))>>),
       ScriptEndpoint("/t/result-array",
                      <<SetResult(JSArray("[foo]")), Throw(JSError("boom"))>>),
       \* the arguments of $sys.acquire
       ScriptEndpoint("/a/none", <<Acquire(<<>>)>>),
       ScriptEndpoint("/a/three",
                      <<Acquire(<<JSString("ds1"), JSInt("1"), JSInt("2")>>)>>),
       ScriptEndpoint("/a/int", <<Acquire(<<JSInt("1")>>)>>),
       ScriptEndpoint("/a/int-bad", <<Acquire(<<JSInt("1"), JSString("x")>>)>>),
       ScriptEndpoint("/a/empty", <<Acquire(<<JSString("")>>)>>),
       ScriptEndpoint("/a/empty-bad",
                      <<Acquire(<<JSString(""), JSString("x")>>)>>),
       ScriptEndpoint("/a/unknown", <<Acquire(<<JSString("nope")>>)>>),
       ScriptEndpoint("/a/unknown-bad",
                      <<Acquire(<<JSString("nope"), JSNull>>)>>),
       ScriptEndpoint("/a/bad", <<Acquire(<<JSString("ds1"), JSString("x")>>)>>),
       ScriptEndpoint("/a/after",
                      <<Acquire(<<JSString("ds2")>>),
                        Acquire(<<JSString("ds1"), JSBool("true")>>)>>),
       ScriptEndpoint("/a/int-timeout",
                      <<Acquire(<<JSString("ds1"), JSInt("1")>>)>>),
       ScriptEndpoint("/a/float-timeout",
                      <<Acquire(<<JSString("ds2"), JSFloat64("0.5")>>)>>),
       \* connections: one datasource twice, two datasources and a throw
       ScriptEndpoint("/c/twice",
                      <<Acquire(<<JSString("ds1")>>),
                        Acquire(<<JSString("ds1")>>),
                        SetResult(JSString("done"))>>),
       ScriptEndpoint("/c/two",
                      <<Acquire(<<JSString("ds1")>>),
                        Acquire(<<JSString("ds2")>>), Exec,
                        Throw(JSError("boom"))>>),
       \* a global variable
       ScriptEndpoint("/g", <<ResultFromGlobal, SetGlobal>>) >>

\* cfg.Jobs: a statement, a statement in a transaction, a script that
\* takes a connection and throws, and a script that acquires one datasource
\* twice and runs a statement
CronJobs ==
    << [name |-> "job1", type |-> "exec", datasource |-> "ds1", tx |-> FALSE,
        script |-> NoScript],
       [name |-> "job2", type |-> "exec", datasource |-> "ds1", tx |-> TRUE,
        script |-> NoScript],
       [name |-> "job3", type |-> "javascript", datasource |-> "", tx |-> FALSE,
        script |-> <<Acquire(<<JSString("ds2")>>), Throw(JSString("foo"))>>],
       [name |-> "job4", type |-> "javascript", datasource |-> "", tx |-> FALSE,
        script |-> <<Acquire(<<JSString("ds1")>>),
                     Acquire(<<JSString("ds1")>>), Exec>>] >>

\* the runs of the jobs that cron starts
MaxRuns == 2

RunIds == 1 .. MaxRuns

\* a run is [pc, job, ip, js, out, failed]: its position in runJob, its job,
\* the sandbox of a script, the connections it has out of each pool and
\* whether runJob logged an error
noRun ==
    [pc |-> "none", job |-> 0, ip |-> 0, js |-> newScriptContext,
     out |-> [d \in DSNames |-> 0], failed |-> FALSE]

\* Endpoint.Datasource: the SQL endpoints all use the first datasource
epDatasource == Datasources[1]

Endpoints ==
    << \* a cached query, with free-form strings and an array
       [uri |-> "/movies", methods |-> {"GET", "POST"}, impl |-> "query-json",
        cache |-> CacheTTL, tx |-> FALSE, script |-> NoScript,
        params |-> << Param("s1", "query", FALSE, "string"),
                      Param("s2", "query", FALSE, "string"),
                      [Param("tags", "body", FALSE, "array")
                          EXCEPT !.elemType = "string",
                                 !.maxItems = <<1>>] >>],
       \* a query without cache: an integer range from the query string
       [uri |-> "/csv", methods |-> {"GET"}, impl |-> "query-csv",
        cache |-> 0, tx |-> FALSE, script |-> NoScript,
        params |-> << [Param("n", "query", TRUE, "integer")
                          EXCEPT !.minimum = <<Float(1, 0)>>,
                                 !.maximum = <<Float(3, 0)>>] >>],
       \* a statement: an integer range from the body
       [uri |-> "/exec", methods |-> {"POST"}, impl |-> "exec",
        cache |-> 0, tx |-> FALSE, script |-> NoScript,
        params |-> << [Param("n", "body", TRUE, "integer")
                          EXCEPT !.minimum = <<Float(1, 0)>>,
                                 !.maximum = <<Float(3, 0)>>] >>],
       \* a script: a number range, a number without limits and an array of
       \* numbers from the body
       [uri |-> "/js", methods |-> {"POST"}, impl |-> "javascript",
        cache |-> 0, tx |-> FALSE,
        script |-> <<Acquire(<<JSString("ds1")>>), Exec,
                     SetResult(JSObject("{rows:1}"))>>,
        params |-> << [Param("x", "body", TRUE, "number")
                          EXCEPT !.minimum = <<Float(1, 0)>>,
                                 !.maximum = <<Float(2, FracUnits \div 2)>>],
                      Param("y", "body", FALSE, "number"),
                      [Param("ys", "body", FALSE, "array")
                          EXCEPT !.elemType = "number"] >>],
       \* enums, each with other constraints that no enumerated value meets
       [uri |-> "/enum", methods |-> {"GET"}, impl |-> "static-text",
        cache |-> 0, tx |-> FALSE, script |-> NoScript,
        params |-> << [Param("es", "query", FALSE, "string")
                          EXCEPT !.enum = <<String(<<97>>), String(<<98, 98>>)>>,
                                 !.maxLength = <<0>>,
                                 !.pattern = {120}],
                      [Param("ei", "query", FALSE, "integer")
                          EXCEPT !.enum = <<Float(1, 0), Float(5, 1),
                                            String(<<55>>)>>,
                                 !.minimum = <<Float(2, 0)>>,
                                 !.maximum = <<Float(3, 0)>>],
                      [Param("en", "query", FALSE, "number")
                          EXCEPT !.enum = <<Float(1, FracUnits \div 2),
                                            String(<<51>>)>>,
                                 !.minimum = <<Float(2, 0)>>,
                                 !.maximum = <<Float(2, 0)>>] >>],
       \* one parameter per location, optional ones around a required one
       [uri |-> "/loc/{p}", methods |-> {}, impl |-> "static-json",
        cache |-> 0, tx |-> FALSE, script |-> NoScript,
        params |-> << [Param("q", "query", FALSE, "string")
                          EXCEPT !.maxLength = <<1>>],
                      [Param("p", "path", TRUE, "string")
                          EXCEPT !.pattern = {97, 98}],
                      Param("b", "body", FALSE, "boolean") >>],
       \* a statement in a transaction
       [uri |-> "/tx", methods |-> {"POST"}, impl |-> "exec",
        cache |-> 0, tx |-> TRUE, script |-> NoScript,
        params |-> <<>>] >> \o ScriptEndpoints

EPs == 1 .. Len(Endpoints)

\* the endpoint of a URI
epOf(uri) == CHOOSE e \in EPs : Endpoints[e].uri = uri

\* rxMethod: the methods of HTTP the router can register
Methods == {"GET", "POST", "PUT", "PATCH", "DELETE"}

\* the methods the router registers the endpoint for
epMethods(ep) == IF ep.methods = {} THEN Methods ELSE ep.methods

(***************************************************************************)
(* The parameter engine.                                                   *)
(***************************************************************************)
\* a result (value, error): err is "" for nil
Ok(v) == [err |-> "", v |-> v]

Err(msg) == [err |-> msg, v |-> Nil]

\* prepareParams: one enumerated value converted to the type, as a sequence
\* of length 1, or of length 0 if it does not convert
coerceEnumValue(type, v) ==
    LET f2i == float2int(IF v.t = "float64" THEN v ELSE Float(0, 0))
        pi == ParseInt(IF v.t = "string" THEN v.s ELSE <<>>)
        pf == ParseFloat(IF v.t = "string" THEN v.s ELSE <<>>)
    IN  CASE type = "string" /\ v.t = "string" -> <<v.s>>
          [] type = "integer" /\ v.t = "int64" -> <<v.i>>
          [] type = "integer" /\ v.t = "float64" /\ f2i.ok -> <<f2i.i>>
          [] type = "integer" /\ v.t = "string" /\ pi.ok -> <<pi.i>>
          [] type = "number" /\ v.t = "int64" -> <<Float(v.i, 0)>>
          [] type = "number" /\ v.t = "float64" -> <<v>>
          [] type = "number" /\ v.t = "string" /\ pf.ok -> <<pf.f>>
          [] OTHER -> <<>>

\* the paramInfo prepareParams builds for one parameter: the compiled
\* pattern and the enumerated values that convert to the type
paramInfo(p) ==
    [rx |-> p.pattern,
     enum |-> IF Len(p.enum) > 0 /\ p.type \in {"string", "integer", "number"}
              THEN flatten([k \in 1 .. Len(p.enum) |->
                               coerceEnumValue(p.type, p.enum[k])])
              ELSE <<>>]

\* a.pinfo.Load(ep.URI + "#" + p.Name): the validator lets no two endpoints
\* share a URI and no two parameters of an endpoint share a name, so the
\* key holds the paramInfo prepareParams built for p; a parameter without
\* compiled pattern and without enumerated values has no entry, which the
\* checks take as neither
pinfoLoad(ep, p) == paramInfo(p)

\* rx.MatchString(s) for the compiled "^[c...]+$"
MatchString(rx, s) == s # <<>> /\ \A k \in 1 .. Len(s) : s[k] \in rx

\* a faulty inEnum: a value between the minimum and the maximum is let
\* through as well
inEnum_orInRange(enum, p, v) ==
    \/ \E k \in 1 .. Len(enum) : enum[k] = v
    \/ /\ p.type = "integer"
       /\ p.minimum # <<>> /\ p.maximum # <<>>
       /\ int64(p.minimum[1]) <= v /\ v <= int64(p.maximum[1])

\* the enum branch of checkString, checkInteger and checkFloat: the loop
\* over the enumerated values loaded from a.pinfo
inEnum(enum, p, v) == \E k \in 1 .. Len(enum) : enum[k] = v

checkString(ep, p, s) ==
    LET info == pinfoLoad(ep, p)
    IN  IF Len(p.enum) > 0
        THEN IF inEnum(info.enum, p, s) THEN Ok(String(s))
             ELSE Err("does not match any of the enumerated values")
        ELSE IF p.maxLength # <<>> /\ p.maxLength[1] >= 0 /\ Len(s) > p.maxLength[1]
        THEN Err("exceeds specified max length")
        ELSE IF p.pattern # {} /\ info.rx # {} /\ ~MatchString(info.rx, s)
        THEN Err("does not match pattern")
        ELSE Ok(String(s))

checkStringAny(ep, p, v) ==
    IF v.t = "string" THEN checkString(ep, p, v.s)
    ELSE Err("cannot convert value to string")

checkInteger(ep, p, i) ==
    IF Len(p.enum) > 0
    THEN IF inEnum(pinfoLoad(ep, p).enum, p, i) THEN Ok(Int64(i))
         ELSE Err("does not match any of the enumerated values")
    ELSE IF p.minimum # <<>> /\ i < int64(p.minimum[1])
    THEN Err("is lower than the minimum")
    ELSE IF p.maximum # <<>> /\ i > int64(p.maximum[1])
    THEN Err("is higher than the maximum")
    ELSE Ok(Int64(i))

\* a string goes through strconv.ParseFloat ("200.00" as well as "200"),
\* and the float64 through float2int
checkIntegerAny(ep, p, v) ==
    LET pf == IF v.t = "string" THEN ParseFloat(v.s)
              ELSE [ok |-> v.t = "float64",
                    f |-> IF v.t = "float64" THEN v ELSE Float(0, 0)]
        f2i == float2int(pf.f)
    IN  IF pf.ok /\ f2i.ok THEN checkInteger(ep, p, f2i.i)
        ELSE IF v.t = "string" THEN Err("not a valid integer")
        ELSE Err("cannot convert value to integer")

checkFloat(ep, p, f) ==
    IF Len(p.enum) > 0
    THEN IF ~IsNaN(f) /\ inEnum(pinfoLoad(ep, p).enum, p, f) THEN Ok(f)
         ELSE Err("does not match any of the enumerated values")
    ELSE IF p.minimum # <<>> /\ FloatLess(f, p.minimum[1])
    THEN Err("is lower than the minimum")
    ELSE IF p.maximum # <<>> /\ FloatLess(p.maximum[1], f)
    THEN Err("is higher than the maximum")
    ELSE Ok(f)

checkFloatAny(ep, p, v) ==
    LET pf == IF v.t = "string" THEN ParseFloat(v.s)
              ELSE [ok |-> v.t = "float64" /\ ~IsNaN(v) /\ ~IsInf(v),
                    f |-> IF v.t = "float64" THEN v ELSE Float(0, 0)]
    IN  IF pf.ok THEN checkFloat(ep, p, pf.f)
        ELSE IF v.t = "string" THEN Err("not a valid number")
        ELSE Err("cannot convert value to number")

checkBoolAny(ep, p, v) ==
    IF v.t = "string"
    THEN IF ToLower(v.s) = <<116, 114, 117, 101>> THEN Ok(Bool(TRUE))
         ELSE IF ToLower(v.s) = <<102, 97, 108, 115, 101>> THEN Ok(Bool(FALSE))
         ELSE Err("cannot convert value to boolean")
    ELSE IF v.t = "bool" THEN Ok(v)
    ELSE Err("cannot convert value to boolean")

\* the check of one element of an array, by p.ElemType
checkElem(ep, p, ev) ==
    CASE p.elemType = "integer" -> checkIntegerAny(ep, p, ev)
      [] p.elemType = "number" -> checkFloatAny(ep, p, ev)
      [] p.elemType = "string" -> checkStringAny(ep, p, ev)
      [] p.elemType = "boolean" -> checkBoolAny(ep, p, ev)
      [] OTHER -> Err("invalid elemType")

\* the slice type checkArray returns for p.ElemType
sliceType(p) ==
    CASE p.elemType = "integer" -> "[]int64"
      [] p.elemType = "number" -> "[]float64"
      [] p.elemType = "string" -> "[]string"
      [] OTHER -> "[]bool"

\* the Go value inside a checked element
goValue(x) ==
    CASE x.t = "string" -> x.s
      [] x.t = "int64" -> x.i
      [] x.t = "bool" -> x.b
      [] OTHER -> x

checkArray(ep, p, v) ==
    LET rs == [j \in 1 .. Len(v) |-> checkElem(ep, p, v[j])]
    IN  IF p.minItems # <<>> /\ Len(v) < p.minItems[1]
        THEN Err("fewer than the specified minimum of items")
        ELSE IF p.maxItems # <<>> /\ Len(v) > p.maxItems[1]
        THEN Err("more than the specified maximum of items")
        ELSE IF \E j \in 1 .. Len(v) : rs[j].err # ""
        THEN Err("enum value: invalid")
        ELSE Ok([t |-> sliceType(p), a |-> [j \in 1 .. Len(v) |-> goValue(rs[j].v)]])

checkArrayAny(ep, p, v) ==
    IF v.t \in {"[]string", "[]any"}
    THEN checkArray(ep, p, IF v.t = "[]any" THEN v.a
                           ELSE [j \in 1 .. Len(v.a) |-> String(v.a[j])])
    ELSE Err("cannot convert value to array")

\* isSuitable: a single-valued []string, or a string, is checked as a string
isSuitable(ep, p, v) ==
    LET sv == (v.t = "[]string" /\ Len(v.a) = 1) \/ v.t = "string"
        s == IF v.t = "[]string" /\ sv THEN String(v.a[1]) ELSE v
    IN  CASE p.type = "string" /\ sv -> checkString(ep, p, s.s)
          [] p.type = "string" -> Err("not a string")
          [] p.type = "integer" -> checkIntegerAny(ep, p, s)
          [] p.type = "number" -> checkFloatAny(ep, p, s)
          [] p.type = "boolean" -> checkBoolAny(ep, p, s)
          [] p.type = "array" -> checkArrayAny(ep, p, v)
          [] OTHER -> Err("unknown parameter type")

(***************************************************************************)
(* Requests.  A request is [method, ct, path, query, body]: the method,    *)
(* the content type, the components the router extracted, the values of    *)
(* the URL query string and the decoded body, each a map from names.       *)
(***************************************************************************)
ctJSON == "application/json"

ctForm == "application/x-www-form-urlencoded"

\* a map with no key, and a nil map
NoValues == [k \in {} |-> Nil]

NilMap == [nil |-> TRUE, m |-> NoValues]

Map(m) == [nil |-> FALSE, m |-> m]

\* v, ok = m[key]
lookup(m, key) == IF key \in DOMAIN m THEN m[key] ELSE NotFound

\* getParams: req.URL.Query() is read for GET only
urlData(req) == IF req.method = "GET" THEN Map(req.query) ELSE NilMap

\* getParams: the body is decoded for every other method, by content type
jsonData(req) ==
    IF req.method # "GET" /\ req.ct = ctJSON THEN Map(req.body) ELSE NilMap

formData(req) ==
    IF req.method # "GET" /\ req.ct = ctForm THEN Map(req.body) ELSE NilMap

\* getParams.getParam: the value of the parameter at its declared location;
\* chi.URLParam gives "" for a component that is not there
getParam(req, in, key) ==
    CASE in = "path" ->
           IF lookup(req.path, key).t = "string" /\ lookup(req.path, key).s # <<>>
           THEN lookup(req.path, key) ELSE NotFound
      [] in = "query" -> lookup(urlData(req).m, key)
      [] in = "body" ->
           IF ~jsonData(req).nil THEN lookup(jsonData(req).m, key)
           ELSE IF ~formData(req).nil THEN lookup(formData(req).m, key)
           ELSE NotFound
      [] OTHER -> NotFound

\* getParams: a boolean parameter of the query string or of a form, given
\* with an empty value, is true
noValueIsTrue(req, p, v) ==
    IF /\ p.type = "boolean"
       /\ p.in = "query" \/ (p.in = "body" /\ jsonData(req).nil /\ ~formData(req).nil)
       /\ v.t = "[]string" /\ Len(v.a) = 1 /\ Len(v.a[1]) = 0
    THEN Bool(TRUE) ELSE v

RECURSIVE getParamsFrom_lenient(_, _, _, _)
\* a faulty loop: a required parameter that is not supplied gets a nil slot
getParamsFrom_lenient(ep, req, i, out) ==
    IF i > Len(ep.params) THEN [err |-> "", at |-> 0, out |-> out]
    ELSE LET p == ep.params[i]
             v == getParam(req, p.in, p.name)
             r == isSuitable(ep, p, noValueIsTrue(req, p, v))
         IN  IF v.t = "notfound"
             THEN getParamsFrom_lenient(ep, req, i + 1, Append(out, Nil))
             ELSE IF r.err # ""
                  THEN [err |-> "invalid value", at |-> i, out |-> <<>>]
                  ELSE getParamsFrom_lenient(ep, req, i + 1, Append(out, r.v))

RECURSIVE getParamsFrom(_, _, _, _)
\* the loop of getParams from parameter i on, out holding the slots before i;
\* at is the parameter the error names
getParamsFrom(ep, req, i, out) ==
    IF i > Len(ep.params) THEN [err |-> "", at |-> 0, out |-> out]
    ELSE LET p == ep.params[i]
             v == getParam(req, p.in, p.name)
             r == isSuitable(ep, p, noValueIsTrue(req, p, v))
         IN  IF v.t = "notfound"
             THEN IF p.required
                  THEN [err |-> "value required but not supplied", at |-> i,
                        out |-> <<>>]
                  ELSE getParamsFrom(ep, req, i + 1, Append(out, Nil))
             ELSE IF r.err # ""
                  THEN [err |-> "invalid value", at |-> i, out |-> <<>>]
                  ELSE getParamsFrom(ep, req, i + 1, Append(out, r.v))

getParams(ep, req) == getParamsFrom(ep, req, 1, <<>>)

(***************************************************************************)
(* The cache key.                                                          *)
(***************************************************************************)
startOfValue == 2

endOfValue == 3

\* []byte(uri)
uriBytes(uri) ==
    CASE uri = "/movies" -> <<47, 109, 111, 118, 105, 101, 115>>
      [] uri = "/csv" -> <<47, 99, 115, 118>>
      [] uri = "/exec" -> <<47, 101, 120, 101, 99>>
      [] uri = "/js" -> <<47, 106, 115>>
      [] uri = "/enum" -> <<47, 101, 110, 117, 109>>
      [] uri = "/tx" -> <<47, 116, 120>>
      [] OTHER -> <<47, 108, 111, 99, 47, 123, 112, 125>>

RECURSIVE bigEndian(_, _)
\* the n bytes of x >= 0, most significant first
bigEndian(x, n) ==
    IF n = 0 THEN <<>> ELSE Append(bigEndian(x \div 256, n - 1), x % 256)

\* binary.Write(d, binary.BigEndian, int64(x)): two's complement
int64Bytes(x) ==
    IF x >= 0 THEN bigEndian(x, 8)
    ELSE [k \in 1 .. 8 |-> 255 - bigEndian(0 - x - 1, 8)[k]]

\* binary.Write of a float64: 8 bytes, here 4 for each of the two parts the
\* model keeps of it
float64Bytes(x) ==
    IF IsNaN(x) THEN <<127, 248, 0, 0, 0, 0, 0, 1>>
    ELSE IF IsInf(x) THEN <<IF x.sign < 0 THEN 255 ELSE 127, 240, 0, 0, 0, 0, 0, 0>>
    ELSE SubSeq(int64Bytes(x.i), 5, 8) \o SubSeq(int64Bytes(x.f), 5, 8)

\* what makeCacheKey writes to the digest between the framing bytes of one
\* argument: nothing for nil, the bytes of a string, every element of a
\* []string framed, and binary.Write for the rest
argBytes(a) ==
    CASE a.t = "string" -> a.s
      [] a.t = "[]string" ->
           flatten([k \in 1 .. Len(a.a) |->
                       <<startOfValue>> \o a.a[k] \o <<endOfValue>>])
      [] a.t = "nil" -> <<>>
      [] a.t = "int64" -> int64Bytes(a.i)
      [] a.t = "float64" -> float64Bytes(a)
      [] a.t = "bool" -> <<IF a.b THEN 1 ELSE 0>>
      [] a.t = "[]int64" -> flatten([k \in 1 .. Len(a.a) |-> int64Bytes(a.a[k])])
      [] a.t = "[]float64" ->
           flatten([k \in 1 .. Len(a.a) |-> float64Bytes(a.a[k])])
      [] OTHER -> [k \in 1 .. Len(a.a) |-> IF a.a[k] THEN 1 ELSE 0]

\* every byte makeCacheKey writes to the digest, in order
digestInput(uri, args) ==
    <<startOfValue>> \o uriBytes(uri) \o <<endOfValue>>
        \o flatten([k \in 1 .. Len(args) |->
                       <<startOfValue>> \o argBytes(args[k]) \o <<endOfValue>>])

\* the range of the digest: 16 bits stand for the 64 of xxhash
DigestRange == 65536

RECURSIVE Sum64(_)
\* d.Sum64(): a function of the bytes written and of nothing else
Sum64(bytes) ==
    IF bytes = <<>> THEN 17
    ELSE (Sum64(SubSeq(bytes, 1, Len(bytes) - 1)) * 31 + bytes[Len(bytes)])
             % DigestRange

\* a faulty makeCacheKey: the time of the request is written to the digest
makeCacheKey_timed(uri, args) == Sum64(digestInput(uri, args) \o <<now>>)

makeCacheKey(uri, args) == Sum64(digestInput(uri, args))

(***************************************************************************)
(* The cache of the runtime (rti.CacheGet, rti.CacheSet) and the handlers. *)
(***************************************************************************)
\* a cached value: the timestamp of its first 8 bytes and the body after
\* them; history: the call the key was made for (by) and the bytes it wrote
\* to the digest (fed)
Entry(ts, body, uri, args) ==
    [ts |-> ts, body |-> body, by |-> [uri |-> uri, args |-> args],
     fed |-> digestInput(uri, args)]

\* a faulty CacheDelete: the entry stays
CacheDelete_keep(c, key) == c

\* cacheSet: an empty value deletes the key
CacheDelete(c, key) == [k \in DOMAIN c \ {key} |-> c[k]]

CacheSet(c, key, value) == [k \in DOMAIN c \cup {key} |-> IF k = key THEN value ELSE c[k]]

NoCache == [k \in {} |-> 0]

Handlers == {1, 2}

NoRequest == [method |-> "", ct |-> "", path |-> NoValues, query |-> NoValues,
              body |-> NoValues]

\* a response body: the payload of a static endpoint, an error, or the
\* encoding of the rows a query returned for args on version db of the data
Body(kind, uri, args, dbv) == [kind |-> kind, uri |-> uri, args |-> args, db |-> dbv]

NoBody == Body("none", "", <<>>, 0)

\* a handler that serves no request
idleHandler ==
    [pc |-> "idle", e |-> 0, req |-> NoRequest, params |-> <<>>,
     useCache |-> FALSE, key |-> 0, rows |-> 0 - 1, ts |-> 0,
     hit |-> FALSE, status |-> 0, body |-> NoBody, ops |-> <<>>, at |-> 0,
     txlog |-> <<>>, fail |-> "", ip |-> 0, js |-> newScriptContext]

(***************************************************************************)
(* The requests the clients send: for each parameter, the values supplied  *)
(* at its declared location, as text (path, query string, form) and as     *)
(* JSON.                                                                   *)
(***************************************************************************)
\* "2.0000000005" and "2.000000001"
twoAndHalfNano == <<50, 46, 48, 48, 48, 48, 48, 48, 48, 48, 48, 53>>

twoAndOneNano == <<50, 46, 48, 48, 48, 48, 48, 48, 48, 48, 49>>

Samples(uri, name) ==
    CASE uri = "/movies" /\ name = "s1" ->
           [text |-> {<<>>, <<endOfValue, startOfValue>>}, multi |-> {<< <<>>, <<>> >>}, json |-> {}]
      [] uri = "/movies" /\ name = "s2" ->
           [text |-> {<<>>, <<endOfValue, startOfValue>>}, multi |-> {}, json |-> {}]
      [] uri = "/movies" /\ name = "tags" ->
           [text |-> {}, multi |-> {},
            json |-> {[t |-> "[]any", a |-> <<>>],
                      [t |-> "[]any", a |-> <<String(<<>>)>>],
                      [t |-> "[]any", a |-> <<Float(1, 0)>>]}]
      [] uri = "/csv" ->
           \* "0" "1" "3" "4" "2.0" "2.5" "-1" "x" ""
           [text |-> {<<48>>, <<49>>, <<51>>, <<52>>, <<50, 46, 48>>,
                      <<50, 46, 53>>, <<45, 49>>, <<120>>, <<>>,
                      twoAndHalfNano, twoAndOneNano},
            multi |-> {<< <<49>>, <<50>> >>}, json |-> {}]
      [] uri = "/exec" ->
           \* "2" "3.0" "4"
           [text |-> {<<50>>, <<51, 46, 48>>, <<52>>}, multi |-> {},
            json |-> {Float(0, 0), Float(1, 0), Float(2, 0), Float(3, 0),
                      Float(4, 0), Float(2, 1), Float(2, Epsilon),
                      Float(2, FracUnits \div 2), Float(3, 1),
                      Float(0, FracUnits - 1), Float(0 - 1, 0),
                      String(<<51>>), String(twoAndHalfNano), Bool(TRUE), Nil}]
      [] uri = "/js" /\ name = "x" ->
           \* "1.5" "NaN" "Inf"
           [text |-> {<<49, 46, 53>>, <<78, 97, 78>>, <<73, 110, 102>>},
            multi |-> {},
            json |-> {Float(1, 0), Float(2, FracUnits \div 2),
                      Float(2, FracUnits \div 2 + 1), Float(0, FracUnits - 1),
                      String(<<49, 46, 53>>), String(<<78, 97, 78>>),
                      String(<<45, 105, 110, 102>>), Nil}]
      [] uri = "/js" /\ name = "y" ->
           \* "NaN" "Inf" "1.5"
           [text |-> {<<78, 97, 78>>, <<73, 110, 102>>, <<49, 46, 53>>},
            multi |-> {},
            json |-> {String(<<78, 97, 78>>), String(<<45, 73, 110, 102>>),
                      Float(1, 0)}]
      [] uri = "/js" /\ name = "ys" ->
           \* "1.5" and "NaN"
           [text |-> {}, multi |-> {<< <<49, 46, 53>>, <<78, 97, 78>> >>},
            json |-> {[t |-> "[]any", a |-> <<String(<<73, 110, 102>>)>>],
                      [t |-> "[]any", a |-> <<Float(1, 0)>>]}]
      [] uri = "/enum" /\ name = "es" ->
           \* "a" "bb" "x" ""
           [text |-> {<<97>>, <<98, 98>>, <<120>>, <<>>}, multi |-> {}, json |-> {}]
      [] uri = "/enum" /\ name = "ei" ->
           \* "1" "5" "7" "2" "3"
           [text |-> {<<49>>, <<53>>, <<55>>, <<50>>, <<51>>, twoAndHalfNano},
            multi |-> {}, json |-> {}]
      [] uri = "/enum" /\ name = "en" ->
           \* "1.5" "3" "2" "3.0"
           [text |-> {<<49, 46, 53>>, <<51>>, <<50>>, <<51, 46, 48>>},
            multi |-> {}, json |-> {}]
      [] uri = "/loc/{p}" /\ name = "q" ->
           \* "a" "aaa"
           [text |-> {<<97>>, <<97, 97, 97>>}, multi |-> {}, json |-> {}]
      [] uri = "/loc/{p}" /\ name = "p" ->
           \* "ab" "c"
           [text |-> {<<97, 98>>, <<99>>}, multi |-> {}, json |-> {}]
      [] uri = "/loc/{p}" /\ name = "b" ->
           \* "" "False"
           [text |-> {<<>>, <<70, 97, 108, 115, 101>>}, multi |-> {},
            json |-> {Bool(TRUE), String(<<120>>)}]
      [] OTHER -> [text |-> {}, multi |-> {}, json |-> {}]

\* the values a request of content type ct can carry for parameter p
Supplied(ep, p, ct) ==
    LET sm == Samples(ep.uri, p.name)
        words == {Strings(<<s>>) : s \in sm.text}
                     \cup {Strings(m) : m \in sm.multi}
    IN  {NotFound} \cup
        CASE p.in = "path" -> {String(s) : s \in sm.text}
          [] p.in = "query" -> words
          [] p.in = "body" /\ ct = ctJSON -> sm.json
          [] p.in = "body" /\ ct = ctForm -> words
          [] OTHER -> {}

\* the request that carries the values vals[j] for the parameters of ep
Request(ep, method, ct, vals) ==
    LET at(loc) ==
            LET J == {j \in 1 .. Len(ep.params) :
                         ep.params[j].in = loc /\ vals[j].t # "notfound"}
            IN  [k \in {ep.params[j].name : j \in J} |->
                    vals[CHOOSE j \in J : ep.params[j].name = k]]
    IN  [method |-> method, ct |-> ct, path |-> at("path"),
         query |-> at("query"), body |-> at("body")]

\* the requests a client sends to ep: a GET has no body; only the clients of
\* /loc/{p} put a query string on another method
Requests(ep) ==
    LET V(j, ct) == IF j <= Len(ep.params) THEN Supplied(ep, ep.params[j], ct)
                    ELSE {NotFound}
        W(j, m, ct) == IF /\ m # "GET" /\ ep.uri # "/loc/{p}"
                          /\ j <= Len(ep.params) /\ ep.params[j].in = "query"
                       THEN {NotFound} ELSE V(j, ct)
    IN  UNION { UNION { { Request(ep, m, ct, <<a, b, c>>) :
                            a \in W(1, m, ct), b \in W(2, m, ct), c \in W(3, m, ct) } :
                        ct \in IF m = "GET" THEN {""} ELSE {ctJSON, ctForm} } :
                m \in epMethods(ep) }

(***************************************************************************)
(* Validation of the configuration.  A finding is [Warn, Message].  An     *)
(* optional field is a sequence of length 0 or 1.  The configurations      *)
(* have no streams and no parameters.                                      *)
(***************************************************************************)
\* the access modes and isolation levels of TxOptions, in lower case:
\* "read only", "read write"; "read committed", "repeatable read",
\* "serializable"
TxAccess == {<<114, 101, 97, 100, 32, 111, 110, 108, 121>>,
             <<114, 101, 97, 100, 32, 119, 114, 105, 116, 101>>}

TxIsoLevels ==
    {<<114, 101, 97, 100, 32, 99, 111, 109, 109, 105, 116, 116, 101, 100>>,
     <<114, 101, 112, 101, 97, 116, 97, 98, 108, 101, 32, 114, 101, 97, 100>>,
     <<115, 101, 114, 105, 97, 108, 105, 122, 97, 98, 108, 101>>}

\* net.SplitHostPort of the listen specifications, ":8080" appended to one
\* without a port; ip: the host is empty or an IP address
SplitHostPort ==
    [l \in {"127.0.0.1:60000", ":8080", "10.0.0.1", "localhost:80", ":0",
            ":65535"} |->
        CASE l = "127.0.0.1:60000" -> [port |-> 60000, ip |-> TRUE]
          [] l = ":8080" -> [port |-> 8080, ip |-> TRUE]
          [] l = "10.0.0.1" -> [port |-> 8080, ip |-> TRUE]
          [] l = "localhost:80" -> [port |-> 80, ip |-> FALSE]
          [] l = ":0" -> [port |-> 0, ip |-> TRUE]
          [] OTHER -> [port |-> 65535, ip |-> TRUE]]

\* a nil *APIServerConfig
NilConfig == [nil |-> TRUE]

addWarn(msg) == <<[Warn |-> TRUE, Message |-> msg]>>

addError(msg) == <<[Warn |-> FALSE, Message |-> msg]>>

\* the findings f(s[1]), ..., f(s[n]) one after the other
each(s, f(_)) == flatten([i \in 1 .. Len(s) |-> f(s[i])])

\* one error for a name that names more than one of the items
unique(names, msg) ==
    LET twice == {n \in {names[i] : i \in 1 .. Len(names)} :
                     Cardinality({i \in 1 .. Len(names) : names[i] = n}) > 1}
    IN  IF twice = {} THEN <<>> ELSE addError(msg)

\* semver.IsValid("v" + version) and the canonical form being v1.0.0
semverIsValid(v) == v \in {"1", "1.0", "1.0.0", "2", "1.1"}

semverIsOne(v) == v \in {"1", "1.0", "1.0.0"}

\* the regular expressions, on the strings of the configurations
rxPrefix(s) == s \in {"/api", "/api/v1", "/events", "/setup"}

rxURI(s) == s \in {"/setup", "/movies/{id}", "/a"}

rxMethod(s) == s \in Methods

rxName(s) == s \in {"default", "ds1", "job1", "a.b"}

\* stdCronParser.Parse accepts the schedule
cronParses(s) == s \in {"@every 1s", "* * * * *", "@daily"}

\* strings.TrimSpace(s) is empty
blank(s) == s \in {"", " "}

\* json.Valid
jsonValid(s) == s \in {"{}", "[1]"}

\* the number of "*" in an origin
wildcards(o) == CASE o = "*.*" -> 2 [] o \in {"*", "https://*.a.com"} -> 1
                  [] OTHER -> 0

\* a timeout, TTL or age that is given and not positive
notPositive(opt) == opt # <<>> /\ opt[1] <= 0

\* CORS.validate
validateCORS(c) ==
    LET origin(o) == IF wildcards(o) > 1
                     THEN addError("cors: can use only 1 wildcard") ELSE <<>>
        method(m) == IF ~rxMethod(m)
                     THEN addError("cors: invalid method") ELSE <<>>
    IN  each(c.origins, origin) \o each(c.methods, method) \o
        (IF notPositive(c.maxAge) THEN addWarn("cors: max age is <=0") ELSE <<>>)

\* TxOptions.validate
validateTx(tx) ==
    (IF ToLower(tx.access) \notin {<<>>} \cup TxAccess
     THEN addError("invalid access specifier") ELSE <<>>) \o
    (IF ToLower(tx.isoLevel) \notin {<<>>} \cup TxIsoLevels
     THEN addError("invalid iso level") ELSE <<>>)

\* Endpoint.validate, for an endpoint without parameters
validateEndpoint(ep, ds) ==
    LET method(m) == IF ~rxMethod(m) THEN addError("endpoint: invalid method")
                     ELSE <<>>
        sql == ep.impl \in {"query-json", "query-csv", "exec"}
    IN  (IF ~rxURI(ep.uri) /\ ep.uri # "/"
         THEN addError("endpoint: invalid URI") ELSE <<>>) \o
        each(ep.methods, method) \o
        (IF ep.impl \notin {"query-json", "query-csv", "exec", "static-text",
                            "static-json", "javascript"}
         THEN addError("endpoint: invalid implementation type") ELSE <<>>) \o
        (IF sql /\ \A i \in 1 .. Len(ds) : ds[i].name # ep.datasource
         THEN addError("endpoint: unknown datasource") ELSE <<>>) \o
        (IF blank(ep.script) /\ ep.impl # "static-text"
         THEN addError("endpoint: invalid script: empty") ELSE <<>>) \o
        (IF ep.impl = "static-json" /\ ~jsonValid(ep.script)
         THEN addError("endpoint: invalid script: invalid json") ELSE <<>>) \o
        (IF ep.tx # <<>> THEN validateTx(ep.tx[1]) ELSE <<>>) \o
        (IF notPositive(ep.timeout) THEN addWarn("endpoint: timeout is <=0")
         ELSE <<>>) \o
        (IF notPositive(ep.cache) THEN addWarn("endpoint: cache ttl is <=0")
         ELSE <<>>)

\* ConnPool.validate
validatePool(p) ==
    (IF notPositive(p.minConns) THEN addError("minConns must be >0") ELSE <<>>) \o
    (IF notPositive(p.maxConns) THEN addError("maxConns must be >0") ELSE <<>>) \o
    (IF p.maxConns # <<>> /\ p.minConns # <<>> /\ p.maxConns[1] < p.minConns[1]
     THEN addError("maxConns is < minConns") ELSE <<>>)

\* Datasource.validate, for a datasource without role, parameters and
\* certificates
validateDatasource(d) ==
    (IF ~rxName(d.name) THEN addError("datasource: invalid name") ELSE <<>>) \o
    (IF notPositive(d.timeout) THEN addWarn("datasource: timeout is <=0")
     ELSE <<>>) \o
    (IF d.pool # <<>> THEN validatePool(d.pool[1]) ELSE <<>>)

\* Job.validate
validateJob(j, ds) ==
    (IF ~rxName(j.name) THEN addError("job: invalid name") ELSE <<>>) \o
    (IF j.type \notin {"exec", "javascript"} THEN addError("job: invalid type")
     ELSE <<>>) \o
    (IF ~cronParses(j.schedule) THEN addError("job: invalid cron schedule")
     ELSE <<>>) \o
    (IF j.type = "exec" /\ \A i \in 1 .. Len(ds) : ds[i].name # j.datasource
     THEN addError("job: unknown datasource") ELSE <<>>) \o
    (IF blank(j.script) THEN addError("job: invalid script: empty") ELSE <<>>) \o
    (IF j.tx # <<>> THEN validateTx(j.tx[1]) ELSE <<>>) \o
    (IF notPositive(j.timeout) THEN addWarn("job: timeout is <=0") ELSE <<>>)

\* rxPgChan, as the set of the strings it matches among those used here
rxPgChan(s) == s \in {"chan", "chan_2", "_c$"}

\* a faulty Stream.validate: the datasource is not looked up
validateStream_anyDatasource(s, ds) ==
    (IF ~rxPrefix(s.uri) /\ s.uri # "/"
     THEN addError("stream: invalid URI") ELSE <<>>) \o
    (IF s.type \notin {"websocket", "sse"} THEN addError("stream: invalid type")
     ELSE <<>>) \o
    (IF ~rxPgChan(s.channel) THEN addError("stream: invalid channel") ELSE <<>>)

\* Stream.validate
validateStream(s, ds) ==
    (IF ~rxPrefix(s.uri) /\ s.uri # "/"
     THEN addError("stream: invalid URI") ELSE <<>>) \o
    (IF s.type \notin {"websocket", "sse"} THEN addError("stream: invalid type")
     ELSE <<>>) \o
    (IF ~rxPgChan(s.channel) THEN addError("stream: invalid channel") ELSE <<>>) \o
    (IF \A i \in 1 .. Len(ds) : ds[i].name # s.datasource
     THEN addError("stream: unknown datasource") ELSE <<>>)

\* APIServerConfig.validate: the findings, errors and warnings
validate(c) ==
    LET endpoint(ep) == validateEndpoint(ep, c.datasources)
        strm(s) == validateStream(s, c.datasources)
        job(j) == validateJob(j, c.datasources)
    IN  (IF ~semverIsValid(c.version) THEN addError("invalid schema version")
         ELSE IF ~semverIsOne(c.version)
         THEN addError("incompatible schema version") ELSE <<>>) \o
        (IF c.listen = "" THEN <<>>
         ELSE IF c.listen \notin DOMAIN SplitHostPort
         THEN addError("invalid listen specification")
         ELSE IF SplitHostPort[c.listen].port <= 0
                 \/ SplitHostPort[c.listen].port >= 65535
         THEN addError("invalid listen specification: bad port")
         ELSE IF ~SplitHostPort[c.listen].ip
         THEN addError("invalid listen specification: bad IP") ELSE <<>>) \o
        (IF c.commonPrefix # "" /\ ~rxPrefix(c.commonPrefix)
         THEN addError("invalid common prefix") ELSE <<>>) \o
        (IF c.cors # <<>> THEN validateCORS(c.cors[1]) ELSE <<>>) \o
        each(c.endpoints, endpoint) \o
        unique([i \in 1 .. Len(c.endpoints) |-> c.endpoints[i].uri],
               "endpoints with same URI") \o
        each(c.streams, strm) \o
        unique([i \in 1 .. Len(c.streams) |-> c.streams[i].uri],
               "streams with same URI") \o
        (IF \E i \in 1 .. Len(c.endpoints), k \in 1 .. Len(c.streams) :
                 c.endpoints[i].uri = c.streams[k].uri
         THEN addError("endpoint and stream with same URI") ELSE <<>>) \o
        each(c.jobs, job) \o
        unique([i \in 1 .. Len(c.jobs) |-> c.jobs[i].name], "jobs named") \o
        each(c.datasources, validateDatasource) \o
        unique([i \in 1 .. Len(c.datasources) |-> c.datasources[i].name],
               "datasources named")

\* a faulty IsValid: a warning counts as an error
IsValid_strict(c) == [n |-> Len(validate(c))]

\* APIServerConfig.IsValid: the number of findings that are no warnings, the
\* error being nil when it is 0
IsValid(c) ==
    [n |-> Cardinality({i \in 1 .. Len(validate(c)) : ~validate(c)[i].Warn})]

\* NewAPIServer: an error and no server for a nil or invalid configuration
NewAPIServer(c) ==
    IF c = NilConfig THEN [server |-> FALSE, err |-> "invalid configuration: is nil"]
    ELSE IF IsValid(c).n > 0
    THEN [server |-> FALSE, err |-> "invalid configuration"]
    ELSE [server |-> TRUE, err |-> ""]

(***************************************************************************)
(* The configurations given to validation: a valid one, changed at one or  *)
(* two places to what validate finds wrong or warns about.                 *)
(***************************************************************************)
ValidConfig ==
    [version |-> "1", listen |-> "127.0.0.1:60000", commonPrefix |-> "/api",
     cors |-> <<[origins |-> <<"https://*.a.com">>, methods |-> <<"GET">>,
                 maxAge |-> <<600>>]>>,
     endpoints |->
        <<[uri |-> "/setup", methods |-> <<"POST">>, impl |-> "exec",
           datasource |-> "default", script |-> "insert",
           tx |-> <<[access |-> <<>>,
                     isoLevel |-> <<83, 101, 114, 105, 97, 108, 105, 122, 97,
                                    98, 108, 101>>]>>,
           timeout |-> <<3>>, cache |-> <<>>],
          [uri |-> "/movies/{id}", methods |-> <<>>, impl |-> "static-json",
           datasource |-> "", script |-> "{}", tx |-> <<>>,
           timeout |-> <<>>, cache |-> <<60>>]>>,
     streams |-> <<[uri |-> "/events", type |-> "sse", channel |-> "chan",
                    datasource |-> "a.b"]>>,
     jobs |-> <<[name |-> "job1", type |-> "exec", schedule |-> "@every 1s",
                 datasource |-> "default", script |-> "update", tx |-> <<>>,
                 timeout |-> <<3>>]>>,
     datasources |->
        <<[name |-> "default", timeout |-> <<>>,
           pool |-> <<[minConns |-> <<1>>, maxConns |-> <<4>>]>>],
          [name |-> "a.b", timeout |-> <<5>>, pool |-> <<>>]>>]

\* the changes that validate warns about
Warnings == 1 .. 5

\* the changes that validate finds wrong
Mistakes == 6 .. 35

change(c, k) ==
    CASE k = 1 -> [c EXCEPT !.cors[1].maxAge = <<0>>]
      [] k = 2 -> [c EXCEPT !.endpoints[1].timeout = <<0>>]
      [] k = 3 -> [c EXCEPT !.endpoints[2].cache = <<0 - 1>>]
      [] k = 4 -> [c EXCEPT !.datasources[2].timeout = <<0>>]
      [] k = 5 -> [c EXCEPT !.jobs[1].timeout = <<0 - 1>>]
      [] k = 6 -> [c EXCEPT !.version = ""]
      [] k = 7 -> [c EXCEPT !.version = "2"]
      [] k = 8 -> [c EXCEPT !.listen = ":65535"]
      [] k = 9 -> [c EXCEPT !.listen = "localhost:80"]
      [] k = 10 -> [c EXCEPT !.listen = "a:b:c"]
      [] k = 11 -> [c EXCEPT !.commonPrefix = "api/"]
      [] k = 12 -> [c EXCEPT !.cors[1].origins = <<"*", "*.*">>]
      [] k = 13 -> [c EXCEPT !.cors[1].methods = <<"GET", "FETCH">>]
      [] k = 14 -> [c EXCEPT !.endpoints[1].uri = "setup"]
      [] k = 15 -> [c EXCEPT !.endpoints[1].methods = <<"post">>]
      [] k = 16 -> [c EXCEPT !.endpoints[1].impl = "sql"]
      [] k = 17 -> [c EXCEPT !.endpoints[1].datasource = "nope"]
      [] k = 18 -> [c EXCEPT !.endpoints[1].script = " "]
      [] k = 19 -> [c EXCEPT !.endpoints[2].script = "{"]
      [] k = 20 -> [c EXCEPT !.endpoints[1].tx[1].access = <<82, 87>>]
      [] k = 21 -> [c EXCEPT !.endpoints[2].uri = c.endpoints[1].uri]
      [] k = 22 -> [c EXCEPT !.jobs[1].name = "job 1"]
      [] k = 23 -> [c EXCEPT !.jobs[1].type = "query"]
      [] k = 24 -> [c EXCEPT !.jobs[1].schedule = "often"]
      [] k = 25 -> [c EXCEPT !.jobs[1].datasource = "nope"]
      [] k = 26 -> [c EXCEPT !.jobs[1].script = ""]
      [] k = 27 -> [c EXCEPT !.datasources[1].name = "-x"]
      [] k = 28 -> [c EXCEPT !.datasources[1].pool[1].minConns = <<0>>]
      [] k = 29 -> [c EXCEPT !.datasources[1].pool[1].maxConns = <<0>>]
      [] k = 30 -> [c EXCEPT !.datasources[2].name = c.datasources[1].name]
      [] k = 31 -> [c EXCEPT !.streams[1].datasource = "nope"]
      [] k = 32 -> [c EXCEPT !.streams[1].type = "poll"]
      [] k = 33 -> [c EXCEPT !.streams[1].channel = "1chan"]
      [] k = 34 -> [c EXCEPT !.streams[1].uri = c.endpoints[1].uri]
      [] OTHER -> [c EXCEPT !.streams[1].uri = "/movies/{id}"]

RECURSIVE changed(_, _)
\* the valid configuration with the changes of the set ks
changed(c, ks) ==
    IF ks = {} THEN c
    ELSE LET k == CHOOSE x \in ks : \A y \in ks : x <= y
         IN  changed(change(c, k), ks \ {k})

\* nil, the valid configuration, and it with one change or two
Configs ==
    {NilConfig, ValidConfig} \cup
    {changed(ValidConfig, {a, b}) : a, b \in Warnings \cup Mistakes}

\* no call has been made with the configuration c
newCalls(c) ==
    [cfg |-> c, called |-> {}, r |-> <<>>, valid |-> [n |-> 0],
     new |-> [server |-> FALSE, err |-> ""], pools |-> {}]

\* NewAPIServer: nothing is started
Init ==
    /\ sc \in Scenarios
    /\ startPc = "new" /\ startErr = "none" /\ dsIdx = 0 /\ attempted = <<>>
    /\ pool = [d \in DSNames |-> "none"]
    /\ bgctx = "none" /\ cron = "new" /\ srv = "nil"
    /\ stopPc = "idle" /\ stopErr = "none" /\ stopLog = <<>>
    /\ jobPc = [j \in Jobs |-> "idle"]
    /\ panics = {}
    /\ ndStored = {} /\ nd = [d \in DispDS |-> newNotifDispatcher(d)]
    /\ nsent = 0 /\ stopCur = "" /\ stopSeen = {}
    /\ nw = [c \in Clients |-> newNotifWriter]
    /\ h = [c \in Clients |-> newHandler]
    /\ offered = [c \in Clients |-> <<>>]
    /\ written = [c \in Clients |-> <<>>]
    /\ fanned = [c \in Clients |-> <<>>]
    /\ regOrder = <<>>
    /\ wl = [name |-> "none", handlers |-> {}, eps |-> {}, sample |-> "few",
             rti |-> FALSE, reqs |-> 0, time |-> 0, data |-> 0]
    /\ now = 0 /\ db = 0 /\ cache = NoCache
    /\ rq = [hid \in Handlers |-> idleHandler]
    /\ nreq = 0
    /\ conns = [d \in DSNames |-> 0]
    /\ runs = [id \in RunIds |-> noRun]
    /\ cv = newCalls(NilConfig)

(***************************************************************************)
(* datasources                                                             *)
(***************************************************************************)
\* a faulty dsStop: the pools are left open
dsStop_leak(p) == p

\* datasources.stop: close every pool stored in d.pools
dsStop(p) == [d \in DOMAIN p |-> IF p[d] = "open" THEN "closed" ELSE p[d]]

\* a faulty poolsIdle: Close does not wait for acquired connections
poolsIdle_noWait == TRUE

\* pgxpool.Pool.Close blocks until every acquired connection is returned
poolsIdle == \A j \in Jobs : jobPc[j] # "holding"

\* the outcomes of a step that can fail: failures are inputs of the scenario
Outcomes == IF sc.fail THEN {"ok", "fail"} ELSE {"ok"}

(***************************************************************************)
(* APIServer.Start                                                         *)
(***************************************************************************)
\* a.bgctx, a.bgctxcancel = context.WithCancel(...); a.prepareParams()
StartBegin ==
    /\ ~crashed
    /\ UNCHANGED <<reqVars, cv>>
    /\ startPc = "new"
    /\ stopPc = "idle"    \* the embedder does not call Start after Stop
    /\ bgctx' = "live"
    /\ startPc' = "ds"
    /\ dsIdx' = 1
    /\ UNCHANGED <<sc, startErr, attempted, pool, cron, srv, stopPc, stopErr,
                   stopLog, jobPc, ndVars, subVars, panics>>

\* datasources.start: one iteration of the loop over the sources; on a
\* failed dsconnect, d.stop() and return the error
dsStart ==
    /\ ~crashed
    /\ UNCHANGED <<reqVars, cv>>
    /\ startPc = "ds"
    /\ dsIdx <= Len(Datasources)
    /\ attempted' = Append(attempted, Datasources[dsIdx])
    /\ \E r \in Outcomes :
         IF r = "ok"
         THEN /\ pool' = [pool EXCEPT ![Datasources[dsIdx]] = "open"]
              /\ dsIdx' = dsIdx + 1
              /\ startPc' = IF dsIdx = Len(Datasources) THEN "nd" ELSE "ds"
              /\ UNCHANGED startErr
         ELSE /\ pool' = dsStop(pool)
              /\ startErr' = "connect"
              /\ startPc' = "done"
              /\ UNCHANGED dsIdx
    /\ UNCHANGED <<sc, bgctx, cron, srv, stopPc, stopErr, stopLog, jobPc,
                   ndVars, subVars, panics>>

\* notifDispatcher.start on a hijacked connection: LISTEN, store the
\* connection, start the dispatcher and the fetcher goroutines
ndStart(x) == [x EXCEPT !.conn = "open",
                        !.disp = [at |-> "select", n |-> NoNotif, i |-> 0],
                        !.fetch = [at |-> "wait", n |-> NoNotif]]

\* startNotifDispatchers: one iteration of the loop over ds2pgchans (a Go
\* map: any order).  On a failure: close the connections of the dispatchers
\* started so far and return the error.
startNotifDispatchers ==
    /\ ~crashed
    /\ UNCHANGED <<reqVars, cv>>
    /\ startPc = "nd"
    /\ \E d \in DispDS \ ndStored :
         /\ pool[d] = "open"
         /\ \E r \in (IF sc.fail THEN {"ok", "hijack", "listen"} ELSE {"ok"}) :
              IF r = "ok"
              THEN /\ nd' = [nd EXCEPT ![d] = ndStart(@)]
                   /\ ndStored' = ndStored \cup {d}
                   /\ startPc' = IF ndStored' = DispDS THEN "jobs" ELSE "nd"
                   /\ UNCHANGED startErr
              ELSE \* connsToClose holds the connections of the stored
                   \* dispatchers; after a failed LISTEN the hijacked
                   \* connection of d stays open
                   /\ nd' = [x \in DispDS |->
                                IF x \in ndStored
                                THEN [nd[x] EXCEPT !.conn = "closed"]
                                ELSE IF x = d /\ r = "listen"
                                THEN [nd[x] EXCEPT !.conn = "open"]
                                ELSE nd[x]]
                   /\ startErr' = "dispatchers"
                   /\ startPc' = "done"
                   /\ UNCHANGED ndStored
    /\ UNCHANGED <<sc, dsIdx, attempted, pool, bgctx, cron, srv, stopPc, stopErr,
                   stopLog, jobPc, nsent, stopCur, stopSeen, subVars, panics>>

\* a.setupJobs(): cron.AddFunc for each job, an error ends Start;
\* a.c.Start()
StartJobs ==
    /\ ~crashed
    /\ UNCHANGED <<reqVars, cv>>
    /\ startPc = "jobs"
    /\ \E r \in Outcomes :
         IF r = "ok"
         THEN cron' = "running" /\ startPc' = "listen" /\ startErr' = startErr
         ELSE cron' = cron /\ startPc' = "done" /\ startErr' = "jobs"
    /\ UNCHANGED <<sc, dsIdx, attempted, pool, bgctx, srv, stopPc,
                   stopErr, stopLog, jobPc, ndVars, subVars, panics>>

\* net.Listen; a.srv = &http.Server{...}; go a.srv.Serve(lnr)
StartListen ==
    /\ ~crashed
    /\ UNCHANGED <<reqVars, cv>>
    /\ startPc = "listen"
    /\ \E r \in Outcomes :
         IF r = "ok"
         THEN srv' = "serving" /\ startErr' = "nil"
         ELSE srv' = srv /\ startErr' = "listen"
    /\ startPc' = "done"
    /\ UNCHANGED <<sc, dsIdx, attempted, pool, bgctx, cron, stopPc, stopErr,
                   stopLog, jobPc, ndVars, subVars, panics>>

(***************************************************************************)
(* jobs: cron fires runJob on a goroutine of its own                       *)
(***************************************************************************)
\* cron fires the job (only a running cron fires)
jobRunner(j) ==
    /\ ~crashed
    /\ UNCHANGED <<reqVars, cv>>
    /\ sc.jobs
    /\ cron = "running"
    /\ jobPc[j] = "idle"
    /\ jobPc' = [jobPc EXCEPT ![j] = "running"]
    /\ UNCHANGED <<sc, startPc, startErr, dsIdx, attempted, pool, bgctx, cron,
                   srv, stopPc, stopErr, stopLog, ndVars, subVars, panics>>

\* runJob -> datasources.withTx: acquire a connection of the job's pool;
\* fails when the pool is closed or the context is cancelled
runJobAcquire(j) ==
    /\ ~crashed
    /\ UNCHANGED <<reqVars, cv>>
    /\ jobPc[j] = "running"
    /\ jobPc' = [jobPc EXCEPT ![j] =
                    IF pool[JobDS[j]] = "open" /\ bgctx = "live"
                    THEN "holding" ELSE "idle"]
    /\ UNCHANGED <<sc, startPc, startErr, dsIdx, attempted, pool, bgctx, cron,
                   srv, stopPc, stopErr, stopLog, ndVars, subVars, panics>>

\* runJob: Exec returns (or is cancelled) and the connection is released
runJobRelease(j) ==
    /\ ~crashed
    /\ UNCHANGED <<reqVars, cv>>
    /\ jobPc[j] = "holding"
    /\ jobPc' = [jobPc EXCEPT ![j] = "idle"]
    /\ UNCHANGED <<sc, startPc, startErr, dsIdx, attempted, pool, bgctx, cron,
                   srv, stopPc, stopErr, stopLog, ndVars, subVars, panics>>

\* the stream of the configuration a client connects to
stream(c) == Streams[sc.clients[c]]

(***************************************************************************)
(* notifWriter                                                             *)
(***************************************************************************)
\* a faulty closeQ: close(n.q) without looking at qClosed
closeQ_unchecked(w) == [w EXCEPT !.closes = @ + 1, !.qClosed = TRUE]

\* a faulty closeQ: qClosed is set but the channel is not closed
closeQ_flagOnly(w) == [w EXCEPT !.qClosed = TRUE]

\* closeQ: under qMtx, close the queue unless qClosed says it is closed
closeQ(w) == IF ~w.qClosed
             THEN [w EXCEPT !.closes = @ + 1, !.qClosed = TRUE]
             ELSE w

\* a faulty accept: the queue is taken to have room for one payload more
accept_offByOne(w, payload) ==
    IF w.closes > 0
    THEN [w |-> w, closeQ |-> TRUE]
    ELSE IF Len(w.q) <= notifWriterBacklog
    THEN [w |-> [w EXCEPT !.q = Append(@, payload)], closeQ |-> FALSE]
    ELSE [w |-> w, closeQ |-> TRUE]

\* a faulty accept: the payload is put at the head of the queue
accept_atHead(w, payload) ==
    IF w.closes > 0
    THEN [w |-> w, closeQ |-> TRUE]
    ELSE IF Len(w.q) < notifWriterBacklog
    THEN [w |-> [w EXCEPT !.q = <<payload>> \o @], closeQ |-> FALSE]
    ELSE [w |-> w, closeQ |-> TRUE]

\* the select of accept: a send on a closed channel panics (recovered by the
\* deferred function, which then calls closeQ); a send on a channel with
\* room enqueues; otherwise the default case calls closeQ.
\* Returns the writer and whether closeQ is to be called next.
accept(w, payload) ==
    IF w.closes > 0
    THEN [w |-> w, closeQ |-> TRUE]
    ELSE IF Len(w.q) < notifWriterBacklog
    THEN [w |-> [w EXCEPT !.q = Append(@, payload)], closeQ |-> FALSE]
    ELSE [w |-> w, closeQ |-> TRUE]

(***************************************************************************)
(* notifDispatcher: the fetcher goroutine                                  *)
(***************************************************************************)
\* fetcher: conn.WaitForNotification returns a notification of one of the
\* channels the connection listens to
fetcherWait(d) ==
    /\ ~crashed
    /\ UNCHANGED <<reqVars, cv>>
    /\ nd[d].fetch.at = "wait"
    /\ nd[d].conn = "open"
    /\ nsent < sc.notifs
    /\ Len(nd[d].inq) < MaxIn
    /\ \E ch \in ds2pgchans[d] :
         /\ <<d, ch>> \in sc.chans
         /\ nd' = [nd EXCEPT ![d].fetch =
                      [at |-> "send",
                       n |-> [channel |-> ch, payload |-> nsent + 1,
                              after |-> {c \in Clients : connected(c, h)}]]]
    /\ nsent' = nsent + 1
    /\ UNCHANGED <<sc, lifeVars, ndStored, stopCur, stopSeen, subVars, panics>>

\* fetcher: conn.WaitForNotification fails because the connection was closed
fetcherExit(d) ==
    /\ ~crashed
    /\ UNCHANGED <<reqVars, cv>>
    /\ nd[d].fetch.at = "wait"
    /\ nd[d].conn = "closed"
    /\ nd' = [nd EXCEPT ![d].fetch.at = "exit"]
    /\ UNCHANGED <<sc, lifeVars, ndStored, nsent, stopCur, stopSeen, subVars, panics>>

\* fetcher: nd.in <- *n (blocks while the channel is full, panics when it
\* is closed)
fetcherSend(d) ==
    /\ ~crashed
    /\ UNCHANGED <<reqVars, cv>>
    /\ nd[d].fetch.at = "send"
    /\ IF nd[d].inClosed
       THEN /\ panics' = panics \cup {"fetcher: send on closed channel"}
            /\ nd' = [nd EXCEPT ![d].fetch = [at |-> "exit", n |-> NoNotif]]
       ELSE /\ Len(nd[d].inq) < inCap
            /\ nd' = [nd EXCEPT ![d].inq = Append(@, nd[d].fetch.n),
                                 ![d].fetch = [at |-> "wait", n |-> NoNotif]]
            /\ UNCHANGED panics
    /\ UNCHANGED <<sc, lifeVars, ndStored, nsent, stopCur, stopSeen, subVars>>

(***************************************************************************)
(* notifDispatcher: the dispatcher goroutine                               *)
(***************************************************************************)
\* a faulty unregister: the whole list of the channel is dropped
unregister_all(ws, w2) == <<>>

\* the unregister closure of dispatcher: remove the first occurrence of the
\* writer, keeping the order of the others
unregister(ws, w2) ==
    IF \E i \in 1..Len(ws) : ws[i] = w2
    THEN LET i == CHOOSE k \in 1..Len(ws) :
                    ws[k] = w2 /\ \A m \in 1..(k - 1) : ws[m] # w2
         IN  SubSeq(ws, 1, i - 1) \o SubSeq(ws, i + 1, Len(ws))
    ELSE ws

\* where the dispatcher goes after the writer at index i: the next writer of
\* the list, or back to the select
nextWriter(x, i) ==
    IF i < Len(x.c2ws[x.disp.n.channel])
    THEN [at |-> "accept", n |-> x.disp.n, i |-> i + 1]
    ELSE [at |-> "select", n |-> NoNotif, i |-> 0]

\* dispatcher: case c := <-nd.cmd
dispatcherCmd(d) ==
    /\ ~crashed
    /\ UNCHANGED <<reqVars, cv>>
    /\ nd[d].disp.at = "select"
    /\ nd[d].cmd # <<>>
    /\ LET c == Head(nd[d].cmd)
           x == [nd[d] EXCEPT !.cmd = Tail(@)]
       IN  /\ nd' = [nd EXCEPT ![d] =
                       CASE c.act = "register" ->
                              [x EXCEPT !.c2ws[c.channel] = Append(@, c.writer)]
                         [] c.act = "unregister" ->
                              [x EXCEPT !.c2ws[c.channel] = unregister(@, c.writer)]
                         [] c.act = "stop" ->
                              [x EXCEPT !.disp.at = "exit"]]
           /\ regOrder' = IF c.act = "register"
                          THEN Append(regOrder, c.writer) ELSE regOrder
    /\ UNCHANGED <<sc, lifeVars, ndStored, nsent, stopCur, stopSeen, nw, h,
                   offered, written, fanned, panics>>

\* dispatcher: case notif := <-nd.in, then the loop over c2ws[notif.Channel]
dispatcherNotif(d) ==
    /\ ~crashed
    /\ UNCHANGED <<reqVars, cv>>
    /\ nd[d].disp.at = "select"
    /\ nd[d].inq # <<>>
    /\ LET n == Head(nd[d].inq)
       IN  /\ nd' = [nd EXCEPT ![d].inq = Tail(@),
                               ![d].disp = IF Len(nd[d].c2ws[n.channel]) > 0
                                           THEN [at |-> "accept", n |-> n, i |-> 1]
                                           ELSE [at |-> "select", n |-> NoNotif, i |-> 0]]
           /\ fanned' = [c \in Clients |->
                           IF /\ \E k \in 1..Len(regOrder) : regOrder[k] = c
                              /\ stream(c).ds = d
                              /\ stream(c).channel = n.channel
                           THEN Append(fanned[c], n.payload)
                           ELSE fanned[c]]
    /\ UNCHANGED <<sc, lifeVars, ndStored, nsent, stopCur, stopSeen, nw, h,
                   offered, written, regOrder, panics>>

\* a faulty accept: a plain send on n.q, which waits while the queue is full
dispatcherAccept_blocking(d) ==
    /\ ~crashed
    /\ UNCHANGED <<reqVars, cv>>
    /\ nd[d].disp.at = "accept"
    /\ LET x == nd[d]
           w == x.c2ws[x.disp.n.channel][x.disp.i]
       IN  /\ Len(nw[w].q) < notifWriterBacklog
           /\ nw' = [nw EXCEPT ![w].q = Append(@, x.disp.n.payload)]
           /\ offered' = [offered EXCEPT ![w] = Append(@, x.disp.n.payload)]
           /\ nd' = [nd EXCEPT ![d].disp = nextWriter(x, x.disp.i)]
    /\ UNCHANGED <<sc, lifeVars, ndStored, nsent, stopCur, stopSeen, h, written,
                   fanned, regOrder, panics>>

\* dispatcher: w.accept(notif.Payload), up to the select of accept
dispatcherAccept(d) ==
    /\ ~crashed
    /\ UNCHANGED <<reqVars, cv>>
    /\ nd[d].disp.at = "accept"
    /\ LET x == nd[d]
           w == x.c2ws[x.disp.n.channel][x.disp.i]
           r == accept(nw[w], x.disp.n.payload)
       IN  /\ nw' = [nw EXCEPT ![w] = r.w]
           /\ offered' = [offered EXCEPT ![w] = Append(@, x.disp.n.payload)]
           /\ nd' = [nd EXCEPT ![d].disp =
                        IF r.closeQ THEN [x.disp EXCEPT !.at = "closeQ"]
                        ELSE nextWriter(x, x.disp.i)]
    /\ UNCHANGED <<sc, lifeVars, ndStored, nsent, stopCur, stopSeen, h, written,
                   fanned, regOrder, panics>>

\* dispatcher: the closeQ call of accept (queue full, or from the recover)
dispatcherCloseQ(d) ==
    /\ ~crashed
    /\ UNCHANGED <<reqVars, cv>>
    /\ nd[d].disp.at = "closeQ"
    /\ LET x == nd[d]
           w == x.c2ws[x.disp.n.channel][x.disp.i]
       IN  /\ nw' = [nw EXCEPT ![w] = closeQ(@)]
           /\ nd' = [nd EXCEPT ![d].disp = nextWriter(x, x.disp.i)]
    /\ UNCHANGED <<sc, lifeVars, ndStored, nsent, stopCur, stopSeen, h, offered,
                   written, fanned, regOrder, panics>>

(***************************************************************************)
(* serveStream: the handler goroutine of one client connection            *)
(***************************************************************************)
\* a faulty ctxDone: loopWS selects on a.bgctx, not on the context of
\* ws.CloseRead
ctxDone_bgctxOnly(c) == bgctx = "cancelled"

\* the context the loop selects on: a.bgctx for loopSSE; for loopWS the
\* context of ws.CloseRead, cancelled with a.bgctx or by the read side
ctxDone(c) == bgctx = "cancelled" \/ h[c].lctx

\* the effect of a send on nd.cmd by a handler: the command is buffered, or
\* the send panics because the channel is closed (net/http recovers the
\* panic and drops the connection).  The send blocks while the buffer is
\* full.
cmdCanSend(d) == nd[d].cmdClosed \/ Len(nd[d].cmd) < cmdCap

cmdSend(d, c) == IF nd[d].cmdClosed THEN nd
                 ELSE [nd EXCEPT ![d].cmd = Append(@, c)]

\* serveStream up to nd.register(s.Channel, nw)
register(c) ==
    /\ ~crashed
    /\ UNCHANGED <<reqVars, cv>>
    /\ sc.clients[c] # "none"
    /\ h[c].pc = "idle"
    /\ srv = "serving"
    /\ LET d == stream(c).ds
       IN  IF d \notin ndStored
           THEN /\ h' = [h EXCEPT ![c].pc = "done", ![c].err = "internal"]
                /\ UNCHANGED <<nd, panics>>
           ELSE /\ cmdCanSend(d)
                /\ nd' = cmdSend(d, Cmd("register", stream(c).channel, c))
                /\ IF nd[d].cmdClosed
                   THEN /\ panics' = panics \cup {"handler: send on closed channel"}
                        /\ h' = [h EXCEPT ![c].pc = "done", ![c].err = "panic"]
                   ELSE /\ h' = [h EXCEPT ![c].pc = "registered"]
                        /\ UNCHANGED panics
    /\ UNCHANGED <<sc, lifeVars, ndStored, nsent, stopCur, stopSeen, nw, offered,
                   written, fanned, regOrder>>

\* the handler after a loop returned: the deferred closeQ (skipped when the
\* loop saw the closed queue), the deferred ws.Close(StatusInternalError),
\* which is a no-op on a closed socket
loopReturn(c, err, qclosed, status) ==
    /\ h' = [h EXCEPT ![c].pc = "exited", ![c].err = err, ![c].early = FALSE,
                      ![c].ws = IF @ = "open" THEN status ELSE @]
    /\ nw' = IF qclosed THEN nw ELSE [nw EXCEPT ![c] = closeQ(@)]

\* a faulty loopSSE: a payload that is already queued is written before the
\* initial comment
loopStart_payloadFirst(c) ==
    /\ ~crashed
    /\ UNCHANGED <<reqVars, cv>>
    /\ h[c].pc = "registered"
    /\ ~h[c].gone
    /\ IF stream(c).type = "websocket"
       THEN /\ h' = [h EXCEPT ![c].pc = "loop", ![c].ws = "open",
                               ![c].rd = "reading"]
            /\ UNCHANGED <<nw, written>>
       ELSE /\ h' = [h EXCEPT ![c].pc = "loop", ![c].early = nw[c].q # <<>>]
            /\ IF nw[c].q # <<>>
               THEN /\ written' = [written EXCEPT ![c] = <<Head(nw[c].q), 0>>]
                    /\ nw' = [nw EXCEPT ![c].q = Tail(@)]
               ELSE /\ written' = [written EXCEPT ![c] = Append(@, 0)]
                    /\ UNCHANGED nw
    /\ UNCHANGED <<sc, lifeVars, ndVars, offered, fanned, regOrder, panics>>

\* loopWS up to ws.CloseRead: websocket.Accept upgrades the connection or
\* fails; loopSSE up to the initial keepalive comment (written as 0)
loopStart(c) ==
    /\ ~crashed
    /\ UNCHANGED <<reqVars, cv>>
    /\ h[c].pc = "registered"
    /\ IF stream(c).type = "websocket"
       THEN IF h[c].gone
            THEN loopReturn(c, "upgrade", FALSE, "none") /\ UNCHANGED written
            ELSE /\ h' = [h EXCEPT ![c].pc = "loop", ![c].ws = "open",
                                    ![c].rd = "reading"]
                 /\ UNCHANGED <<nw, written>>
       ELSE IF h[c].gone
            THEN loopReturn(c, "write", FALSE, "none") /\ UNCHANGED written
            ELSE /\ h' = [h EXCEPT ![c].pc = "loop",
                                    ![c].early = nw[c].q # <<>>]
                 /\ written' = [written EXCEPT ![c] = Append(@, 0)]
                 /\ UNCHANGED nw
    /\ UNCHANGED <<sc, lifeVars, ndVars, offered, fanned, regOrder, panics>>

\* the outcomes of writing a payload to the client.  loopSSE: resp.Write
\* fails once the client is gone.  loopWS: ws.Write fails on a closed
\* socket, and under a cancelled context it may fail with that error.
writeOutcomes(c) ==
    IF stream(c).type = "websocket"
    THEN IF h[c].ws # "open" THEN {"write"}
         ELSE IF ctxDone(c) THEN {"ok", "canceled"}
         ELSE {"ok"}
    ELSE IF h[c].gone THEN {"write"} ELSE {"ok"}

\* loop: case payload, ok := <-n.q with ok true: write the payload
loopPayload(c) ==
    /\ ~crashed
    /\ UNCHANGED <<reqVars, cv>>
    /\ h[c].pc = "loop"
    /\ nw[c].q # <<>>
    /\ \E r \in writeOutcomes(c) :
         IF r = "ok"
         THEN /\ nw' = [nw EXCEPT ![c].q = Tail(@)]
              /\ written' = [written EXCEPT ![c] = Append(@, Head(nw[c].q))]
              /\ h' = [h EXCEPT ![c].early = FALSE]
         ELSE /\ h' = [h EXCEPT ![c].pc = "exited", ![c].err = r,
                                 ![c].early = FALSE,
                                 ![c].ws = IF @ = "open" THEN "internal" ELSE @]
              /\ nw' = [nw EXCEPT ![c] = closeQ([@ EXCEPT !.q = Tail(@)])]
              /\ UNCHANGED written
    /\ UNCHANGED <<sc, lifeVars, ndVars, offered, fanned, regOrder, panics>>

\* loop: case payload, ok := <-n.q with ok false (closed and drained):
\* ws.Close(StatusPolicyViolation, "connection too slow"); return errTooSlow
loopTooSlow(c) ==
    /\ ~crashed
    /\ UNCHANGED <<reqVars, cv>>
    /\ h[c].pc = "loop"
    /\ nw[c].q = <<>>
    /\ nw[c].closes > 0
    /\ loopReturn(c, "tooSlow", TRUE, "policy:slow")
    /\ UNCHANGED <<sc, lifeVars, ndVars, offered, written, fanned, regOrder, panics>>

\* loop: case <-ctx.Done(): ws.Close(StatusGoingAway, ...); return ctx.Err()
loopCtxDone(c) ==
    /\ ~crashed
    /\ UNCHANGED <<reqVars, cv>>
    /\ h[c].pc = "loop"
    /\ IF stream(c).type = "websocket" THEN ctxDone(c) ELSE bgctx = "cancelled"
    /\ loopReturn(c, "canceled", FALSE, "goingaway")
    /\ UNCHANGED <<sc, lifeVars, ndVars, offered, written, fanned, regOrder, panics>>

\* loopSSE: case <-ticker.C: the keepalive write fails once the client is
\* gone (a keepalive that succeeds changes nothing)
loopKeepalive(c) ==
    /\ ~crashed
    /\ UNCHANGED <<reqVars, cv>>
    /\ h[c].pc = "loop"
    /\ stream(c).type = "sse"
    /\ h[c].gone
    /\ loopReturn(c, "write", FALSE, "none")
    /\ UNCHANGED <<sc, lifeVars, ndVars, offered, written, fanned, regOrder, panics>>

\* serveStream after the loop: unregister unless the error is
\* context.Canceled
serveStreamEnd(c) ==
    /\ ~crashed
    /\ UNCHANGED <<reqVars, cv>>
    /\ h[c].pc = "exited"
    /\ LET d == stream(c).ds
       IN  IF h[c].err = "canceled"
           THEN /\ h' = [h EXCEPT ![c].pc = "done"]
                /\ UNCHANGED <<nd, panics>>
           ELSE /\ cmdCanSend(d)
                /\ nd' = cmdSend(d, Cmd("unregister", stream(c).channel, c))
                /\ h' = [h EXCEPT ![c].pc = "done"]
                /\ panics' = IF nd[d].cmdClosed
                             THEN panics \cup {"handler: send on closed channel"}
                             ELSE panics
    /\ UNCHANGED <<sc, lifeVars, ndStored, nsent, stopCur, stopSeen, nw, offered,
                   written, fanned, regOrder>>

(***************************************************************************)
(* The clients and the read side of a websocket (ws.CloseRead)             *)
(***************************************************************************)
\* the client sends a data frame: the reader of CloseRead closes the socket
\* with StatusPolicyViolation ("unexpected data message")
clientData(c) ==
    /\ ~crashed
    /\ UNCHANGED <<reqVars, cv>>
    /\ c \in sc.env
    /\ h[c].ws = "open"
    /\ h[c].rd = "reading"
    /\ h' = [h EXCEPT ![c].ws = "policy:data", ![c].rd = "cancel"]
    /\ UNCHANGED <<sc, lifeVars, ndVars, nw, offered, written, fanned, regOrder, panics>>

\* the client disconnects; the reader of an upgraded websocket sees it
clientGone(c) ==
    /\ ~crashed
    /\ UNCHANGED <<reqVars, cv>>
    /\ c \in sc.env
    /\ h[c].pc \in {"registered", "loop"}
    /\ ~h[c].gone
    /\ h[c].rd \in {"off", "reading"}
    /\ h' = [h EXCEPT ![c].gone = TRUE,
                      ![c].ws = IF @ = "open" THEN "peer" ELSE @,
                      ![c].rd = IF @ = "reading" THEN "cancel" ELSE @]
    /\ UNCHANGED <<sc, lifeVars, ndVars, nw, offered, written, fanned, regOrder, panics>>

\* the reader goroutine of CloseRead returns: its deferred cancel()
readerCancel(c) ==
    /\ ~crashed
    /\ UNCHANGED <<reqVars, cv>>
    /\ h[c].rd = "cancel"
    /\ h' = [h EXCEPT ![c].lctx = TRUE, ![c].rd = "done"]
    /\ UNCHANGED <<sc, lifeVars, ndVars, nw, offered, written, fanned, regOrder, panics>>

(***************************************************************************)
(* APIServer.Stop                                                          *)
(***************************************************************************)
\* a faulty Stop: the teardown runs whether or not a.srv is nil
srvIsNil_never == FALSE

\* Stop: if a.srv == nil
srvIsNil == srv = "nil"

\* Stop is called, before Start or once Start has returned, and again once
\* an earlier call has returned; if a.srv == nil, return nil
StopBegin ==
    /\ ~crashed
    /\ UNCHANGED <<reqVars, cv>>
    /\ sc.stop
    /\ startPc \in {"new", "done"}
    /\ stopPc \in {"idle", "done"}
    /\ IF srvIsNil
       THEN /\ stopPc' = "done" /\ stopErr' = "nil"
            /\ UNCHANGED <<stopLog, stopCur, stopSeen>>
       ELSE /\ stopPc' = "cron" /\ stopErr' = "none"
            /\ stopLog' = <<>> /\ stopCur' = "" /\ stopSeen' = {}
    /\ UNCHANGED <<sc, startPc, startErr, dsIdx, attempted, pool, bgctx, cron, srv,
                   jobPc, ndStored, nd, nsent, subVars, panics>>

\* a.c.Stop(): the cron fires no more jobs (running jobs are not awaited)
StopCron ==
    /\ ~crashed
    /\ UNCHANGED <<reqVars, cv>>
    /\ stopPc = "cron"
    /\ cron' = "stopped"
    /\ stopLog' = Append(stopLog, "cron")
    /\ stopPc' = "cancel"
    /\ UNCHANGED <<sc, startPc, startErr, dsIdx, attempted, pool, bgctx, srv,
                   stopErr, jobPc, ndVars, subVars, panics>>

\* a.bgctxcancel(); <-a.bgctx.Done()
StopCancel ==
    /\ ~crashed
    /\ UNCHANGED <<reqVars, cv>>
    /\ stopPc = "cancel"
    /\ bgctx' = "cancelled"
    /\ stopLog' = Append(stopLog, "cancel")
    /\ stopPc' = "nd"
    /\ UNCHANGED <<sc, startPc, startErr, dsIdx, attempted, pool, cron, srv,
                   stopErr, jobPc, ndVars, subVars, panics>>

\* stopNotifDispatchers: a.nd.Range visits the next dispatcher (any order),
\* and nd.stop begins: nd.stopping.Store(true); nd.conn.Close(...).
\* With no dispatcher left, Stop goes on to the HTTP server.
stopNotifDispatchers ==
    /\ ~crashed
    /\ UNCHANGED <<reqVars, cv>>
    /\ stopPc = "nd"
    /\ IF ndStored \ stopSeen = {}
       THEN /\ stopPc' = "shutdown"
            /\ UNCHANGED <<nd, stopCur>>
       ELSE \E d \in ndStored \ stopSeen :
              /\ nd' = [nd EXCEPT ![d].stopping = TRUE, ![d].conn = "closed"]
              /\ stopCur' = d
              /\ stopPc' = "nd.cmd"
    /\ UNCHANGED <<sc, startPc, startErr, dsIdx, attempted, pool, bgctx, cron, srv,
                   stopErr, stopLog, jobPc, ndStored, nsent, stopSeen, subVars,
                   panics>>

\* nd.stop: nd.cmd <- notifDisptacherCmd{act: actStop}
ndStopSend ==
    /\ ~crashed
    /\ UNCHANGED <<reqVars, cv>>
    /\ stopPc = "nd.cmd"
    /\ cmdCanSend(stopCur)
    /\ nd' = cmdSend(stopCur, Cmd("stop", "", 0))
    /\ IF nd[stopCur].cmdClosed
       THEN /\ panics' = panics \cup {"stop: send on closed channel"}
            /\ UNCHANGED stopPc
       ELSE /\ stopPc' = "nd.wait"
            /\ UNCHANGED panics
    /\ UNCHANGED <<sc, startPc, startErr, dsIdx, attempted, pool, bgctx, cron, srv,
                   stopErr, stopLog, jobPc, ndStored, nsent, stopCur, stopSeen,
                   subVars>>

\* nd.stop: nd.wg.Wait() returns once the dispatcher returned; close(nd.cmd)
ndStopWait ==
    /\ ~crashed
    /\ UNCHANGED <<reqVars, cv>>
    /\ stopPc = "nd.wait"
    /\ nd[stopCur].disp.at = "exit"
    /\ nd' = [nd EXCEPT ![stopCur].cmdClosed = TRUE]
    /\ stopPc' = "nd.close"
    /\ UNCHANGED <<sc, startPc, startErr, dsIdx, attempted, pool, bgctx, cron, srv,
                   stopErr, stopLog, jobPc, ndStored, nsent, stopCur, stopSeen,
                   subVars, panics>>

\* nd.stop: close(nd.in), and nd.stop returns
ndStopClose ==
    /\ ~crashed
    /\ UNCHANGED <<reqVars, cv>>
    /\ stopPc = "nd.close"
    /\ nd' = [nd EXCEPT ![stopCur].inClosed = TRUE]
    /\ stopSeen' = stopSeen \cup {stopCur}
    /\ stopCur' = ""
    /\ stopLog' = Append(stopLog, "dispatcher")
    /\ stopPc' = "nd"
    /\ UNCHANGED <<sc, startPc, startErr, dsIdx, attempted, pool, bgctx, cron, srv,
                   stopErr, jobPc, ndStored, nsent, subVars, panics>>

\* the handlers http.Server.Shutdown waits for: those of connections that
\* are neither idle nor hijacked (an upgraded websocket is hijacked)
active(c) == /\ h[c].pc \in {"registered", "loop", "exited"}
             /\ h[c].ws = "none"

\* a.srv.Shutdown(ctx) begins: the listeners are closed
StopShutdown ==
    /\ ~crashed
    /\ UNCHANGED <<reqVars, cv>>
    /\ stopPc = "shutdown"
    /\ srv' = "closing"
    /\ stopLog' = Append(stopLog, "shutdown")
    /\ stopPc' = "shutdown.wait"
    /\ UNCHANGED <<sc, startPc, startErr, dsIdx, attempted, pool, bgctx, cron,
                   stopErr, jobPc, ndVars, subVars, panics>>

\* a.srv.Shutdown(ctx) returns: nil once no connection is active (then
\* a.srv = nil), or the context's error when the timeout expires first
\* (then Stop returns that error)
StopShutdownWait ==
    /\ ~crashed
    /\ UNCHANGED <<reqVars, cv>>
    /\ stopPc = "shutdown.wait"
    /\ IF \A c \in Clients : ~active(c)
       THEN srv' = "nil" /\ stopPc' = "pools" /\ stopErr' = stopErr
       ELSE srv' = srv /\ stopPc' = "done" /\ stopErr' = "timeout"
    /\ UNCHANGED <<sc, startPc, startErr, dsIdx, attempted, pool, bgctx, cron,
                   stopLog, jobPc, ndVars, subVars, panics>>

\* a.ds.stop(); return nil
StopPools ==
    /\ ~crashed
    /\ UNCHANGED <<reqVars, cv>>
    /\ stopPc = "pools"
    /\ poolsIdle
    /\ pool' = dsStop(pool)
    /\ stopLog' = Append(stopLog, "pools")
    /\ stopErr' = "nil"
    /\ stopPc' = "done"
    /\ UNCHANGED <<sc, startPc, startErr, dsIdx, attempted, bgctx, cron, srv,
                   jobPc, ndVars, subVars, panics>>

(***************************************************************************)
(* The specification                                                       *)
(***************************************************************************)
Next ==
    \/ StartBegin
    \/ dsStart
    \/ startNotifDispatchers
    \/ StartJobs
    \/ StartListen
    \/ \E j \in Jobs : jobRunner(j)
    \/ \E j \in Jobs : runJobAcquire(j)
    \/ \E j \in Jobs : runJobRelease(j)
    \/ \E d \in DispDS : fetcherWait(d)
    \/ \E d \in DispDS : fetcherExit(d)
    \/ \E d \in DispDS : fetcherSend(d)
    \/ \E d \in DispDS : dispatcherCmd(d)
    \/ \E d \in DispDS : dispatcherNotif(d)
    \/ \E d \in DispDS : dispatcherAccept(d)
    \/ \E d \in DispDS : dispatcherCloseQ(d)
    \/ \E c \in Clients : register(c)
    \/ \E c \in Clients : loopStart(c)
    \/ \E c \in Clients : loopPayload(c)
    \/ \E c \in Clients : loopTooSlow(c)
    \/ \E c \in Clients : loopCtxDone(c)
    \/ \E c \in Clients : loopKeepalive(c)
    \/ \E c \in Clients : serveStreamEnd(c)
    \/ \E c \in Clients : clientData(c)
    \/ \E c \in Clients : clientGone(c)
    \/ \E c \in Clients : readerCancel(c)
    \/ StopBegin
    \/ StopCron
    \/ StopCancel
    \/ stopNotifDispatchers
    \/ ndStopSend
    \/ ndStopWait
    \/ ndStopClose
    \/ StopShutdown
    \/ StopShutdownWait
    \/ StopPools

Spec == Init /\ [][Next]_vars

\* The Go scheduler runs every runnable goroutine: a handler whose loop can
\* take a step takes one (a write to the client completes or fails), and
\* the reader goroutine of ws.CloseRead runs its deferred cancel.
FairSpec ==
    /\ Spec
    /\ \A c \in Clients :
          /\ WF_vars(loopPayload(c) \/ loopTooSlow(c) \/ loopCtxDone(c)
                        \/ loopKeepalive(c))
          /\ WF_vars(readerCancel(c))

\* The runs in which a subscriber stops reading or misbehaves, with and
\* without Stop, and the run of the whole lifecycle.  In "stalled" two
\* clients subscribe to one channel and neither disconnects, and the
\* database also notifies on another channel and on another datasource.
DispatcherScenarios ==
    {s \in Scenarios :
        s.name \in {"backlog-ws", "stop-bad-ws", "stop-bad-sse", "lifecycle"}}
    \cup {[name |-> "stalled",
           clients |-> [NoClients EXCEPT ![1] = "/sse", ![2] = "/sse2"],
           notifs |-> FewNotifs,
           chans |-> {<<"ds1", "chansse">>, <<"ds1", "chanws">>, <<"ds2", "chanws">>},
           stop |-> FALSE, fail |-> FALSE, jobs |-> FALSE, env |-> {}]}

DispatcherInit ==
    /\ sc \in DispatcherScenarios
    /\ startPc = "new" /\ startErr = "none" /\ dsIdx = 0 /\ attempted = <<>>
    /\ pool = [d \in DSNames |-> "none"]
    /\ bgctx = "none" /\ cron = "new" /\ srv = "nil"
    /\ stopPc = "idle" /\ stopErr = "none" /\ stopLog = <<>>
    /\ jobPc = [j \in Jobs |-> "idle"]
    /\ panics = {}
    /\ ndStored = {} /\ nd = [d \in DispDS |-> newNotifDispatcher(d)]
    /\ nsent = 0 /\ stopCur = "" /\ stopSeen = {}
    /\ nw = [c \in Clients |-> newNotifWriter]
    /\ h = [c \in Clients |-> newHandler]
    /\ offered = [c \in Clients |-> <<>>]
    /\ written = [c \in Clients |-> <<>>]
    /\ fanned = [c \in Clients |-> <<>>]
    /\ regOrder = <<>>
    /\ wl = [name |-> "none", handlers |-> {}, eps |-> {}, sample |-> "few",
             rti |-> FALSE, reqs |-> 0, time |-> 0, data |-> 0]
    /\ now = 0 /\ db = 0 /\ cache = NoCache
    /\ rq = [hid \in Handlers |-> idleHandler]
    /\ nreq = 0
    /\ conns = [d \in DSNames |-> 0]
    /\ runs = [id \in RunIds |-> noRun]
    /\ cv = newCalls(NilConfig)

\* The Go scheduler runs the dispatcher goroutine whenever its select has a
\* ready case or it is inside the fan-out loop.  No handler is assumed to
\* make progress: a subscriber may never read.
DispatcherSpec == DispatcherInit /\ [][Next]_vars

DispatcherFairSpec ==
    /\ DispatcherSpec
    /\ \A d \in DispDS :
          WF_vars(dispatcherCmd(d) \/ dispatcherNotif(d) \/ dispatcherAccept(d)
                     \/ dispatcherCloseQ(d))

(***************************************************************************)
(* Serving requests: APIServer.serve and the handlers it dispatches to.    *)
(* A workload is [name, handlers, eps, sample, rti, reqs, time, data]: the *)
(* handler goroutines that run, the endpoints requested, which of their    *)
(* requests are sent, whether the runtime has a cache, and how many        *)
(* requests, clock ticks and changes of the data the run has.              *)
(***************************************************************************)
MaxRequests == 3

MaxTime == 3

MaxData == 1

Workloads ==
    { \* every parameter of every endpoint, one request at a time
      [name |-> "params", handlers |-> {1}, eps |-> EPs, sample |-> "all",
       rti |-> TRUE, reqs |-> 1, time |-> 0, data |-> 0],
      \* requests to the cached endpoint, one after the other
      [name |-> "cache", handlers |-> {1}, eps |-> {1}, sample |-> "some",
       rti |-> TRUE, reqs |-> MaxRequests, time |-> MaxTime, data |-> MaxData],
      \* requests to the cached endpoint, served at the same time
      [name |-> "concurrent", handlers |-> Handlers, eps |-> {1}, sample |-> "few",
       rti |-> TRUE, reqs |-> 2, time |-> 2, data |-> 1],
      \* a runtime without cache
      [name |-> "nocache", handlers |-> {1}, eps |-> {1}, sample |-> "few",
       rti |-> FALSE, reqs |-> MaxRequests, time |-> 0, data |-> MaxData],
      \* scripts that take connections and set a global, at the same time
      [name |-> "scripts", handlers |-> Handlers,
       eps |-> {epOf("/c/twice"), epOf("/c/two"), epOf("/g")},
       sample |-> "few", rti |-> TRUE, reqs |-> MaxRequests, time |-> 0, data |-> 0],
      \* the jobs, and a request to a script
      [name |-> "jobs", handlers |-> {1}, eps |-> {epOf("/r/string")},
       sample |-> "few", rti |-> TRUE, reqs |-> 1, time |-> 0, data |-> 0] }

\* the requests of the workload to an endpoint.  The few: a GET with no s1
\* or an empty one.  Some: these, a GET with s1 and s2, one of them empty
\* and the other made of the framing bytes, a POST with an empty array and
\* a POST with nothing
Sent(w, ep) ==
    LET empty == Strings(<< <<>> >>)
        framing == Strings(<< <<endOfValue, startOfValue>> >>)
        few == {r \in Requests(ep) :
                   /\ r.method = "GET"
                   /\ DOMAIN r.query \subseteq {"s1"}
                   /\ \A k \in DOMAIN r.query : r.query[k] = empty}
        some == {r \in Requests(ep) :
                   \/ /\ r.method = "GET"
                      /\ DOMAIN r.query = {"s1", "s2"}
                      /\ {r.query["s1"], r.query["s2"]} = {empty, framing}
                   \/ /\ r.method = "POST" /\ r.ct = ctJSON
                      /\ DOMAIN r.body = {"tags"}
                      /\ r.body["tags"] = [t |-> "[]any", a |-> <<>>]
                   \/ /\ r.method = "POST" /\ r.ct = ctForm
                      /\ DOMAIN r.body = {}}
    IN  CASE w.sample = "few" -> few
          [] w.sample = "some" -> few \cup some
          [] OTHER -> Requests(ep)

\* Start has returned nil: the pools are open and the server is listening
ServeInit ==
    /\ sc = [name |-> "serve", clients |-> NoClients, notifs |-> 0, chans |-> {},
             stop |-> FALSE, fail |-> FALSE, jobs |-> FALSE, env |-> {}]
    /\ startPc = "done" /\ startErr = "nil"
    /\ dsIdx = Len(Datasources) + 1 /\ attempted = Datasources
    /\ pool = [d \in DSNames |-> "open"]
    /\ bgctx = "live" /\ cron = "running" /\ srv = "serving"
    /\ stopPc = "idle" /\ stopErr = "none" /\ stopLog = <<>>
    /\ jobPc = [j \in Jobs |-> "idle"]
    /\ panics = {}
    /\ ndStored = {} /\ nd = [d \in DispDS |-> newNotifDispatcher(d)]
    /\ nsent = 0 /\ stopCur = "" /\ stopSeen = {}
    /\ nw = [c \in Clients |-> newNotifWriter]
    /\ h = [c \in Clients |-> newHandler]
    /\ offered = [c \in Clients |-> <<>>]
    /\ written = [c \in Clients |-> <<>>]
    /\ fanned = [c \in Clients |-> <<>>]
    /\ regOrder = <<>>
    /\ wl \in Workloads
    /\ now = 0 /\ db = 0 /\ cache = NoCache
    /\ rq = [hid \in Handlers |-> idleHandler]
    /\ nreq = 0
    /\ conns = [d \in DSNames |-> 0]
    /\ runs = [id \in RunIds |-> noRun]
    /\ cv = newCalls(NilConfig)

\* the router calls the handler of the endpoint with a request
request(hid) ==
    /\ hid \in wl.handlers
    /\ rq[hid].pc \in {"idle", "done"}
    /\ nreq < wl.reqs
    /\ \E e \in wl.eps : \E req \in Sent(wl, Endpoints[e]) :
          rq' = [rq EXCEPT ![hid] =
                    [idleHandler EXCEPT !.pc = "serve", !.e = e, !.req = req]]
    /\ nreq' = nreq + 1
    /\ UNCHANGED <<wl, now, db, cache, conns, runs, streamVars, cv>>

\* http.Error(resp, "invalid parameter values", 400) and return
badRequest(hh, r) ==
    [hh EXCEPT !.pc = "done", !.status = 400, !.at = r.at,
               !.body = Body("invalid parameter values", "", <<>>, 0)]

\* a faulty dispatch: the error of getParams is ignored
dispatch_anyway(hh, ep, r) ==
    [hh EXCEPT !.params = r.out,
               !.pc = CASE ep.impl \in {"query-json", "query-csv"} -> "serveQuery"
                        [] ep.impl = "exec" -> "serveExec"
                        [] ep.impl = "javascript" -> "runScriptHandler"
                        [] OTHER -> "done",
               !.status = IF ep.impl \in {"static-text", "static-json"}
                          THEN 200 ELSE 0,
               !.body = IF ep.impl \in {"static-text", "static-json"}
                        THEN Body("static", ep.uri, <<>>, 0) ELSE NoBody]

\* serve after getParams returned r: 400 on an error, else the switch on
\* ep.ImplType; serveStatic writes the payload at once
dispatch(hh, ep, r) ==
    IF r.err # "" THEN badRequest(hh, r)
    ELSE [hh EXCEPT !.params = r.out,
               !.pc = CASE ep.impl \in {"query-json", "query-csv"} -> "serveQuery"
                        [] ep.impl = "exec" -> "serveExec"
                        [] ep.impl = "javascript" -> "runScriptHandler"
                        [] OTHER -> "done",
               !.status = IF ep.impl \in {"static-text", "static-json"}
                          THEN 200 ELSE 0,
               !.body = IF ep.impl \in {"static-text", "static-json"}
                        THEN Body("static", ep.uri, <<>>, 0) ELSE NoBody]

\* APIServer.serve: the parameters, then the implementation
serve(hid) ==
    /\ rq[hid].pc = "serve"
    /\ LET hh == [rq[hid] EXCEPT !.ops = <<"getParams">>]
           ep == Endpoints[hh.e]
       IN  rq' = [rq EXCEPT ![hid] = dispatch(hh, ep, getParams(ep, hh.req))]
    /\ UNCHANGED <<wl, now, db, cache, nreq, conns, runs, streamVars, cv>>

\* uint64(*ep.Cache * float64(time.Second)), in ticks
cacheTTLNanos(ep) == IF ep.cache > 0 THEN ep.cache ELSE 0

\* a faulty withinTTL: an entry as old as the TTL is stale
withinTTL_exclusive(ts, ttl) == now - ts < ttl

\* serveQuery: elapsed := uint64(time.Now().UnixNano()) - timestamp, and
\* elapsed <= cacheTTLNanos
withinTTL(ts, ttl) == now - ts <= ttl

\* serveQuery up to the cache probe: a fresh entry is the response, a stale
\* one is to be deleted, and without entry (or without cache) the query runs
serveQueryProbe(hid) ==
    /\ rq[hid].pc = "serveQuery"
    /\ LET hh == rq[hid]
           ep == Endpoints[hh.e]
           ttl == cacheTTLNanos(ep)
           key == IF ttl > 0 /\ wl.rti THEN makeCacheKey(ep.uri, hh.params) ELSE 0
           useCache == ttl > 0 /\ wl.rti /\ key # 0
           found == useCache /\ key \in DOMAIN cache
       IN  rq' = [rq EXCEPT ![hid] =
               IF found /\ withinTTL(cache[key].ts, ttl)
               THEN [hh EXCEPT !.pc = "done", !.useCache = useCache, !.key = key,
                               !.hit = TRUE, !.status = 200,
                               !.body = cache[key].body,
                               !.ops = Append(hh.ops, "CacheGet")]
               ELSE [hh EXCEPT !.pc = IF found THEN "expire" ELSE "withTx",
                               !.useCache = useCache, !.key = key,
                               !.ops = IF useCache THEN Append(hh.ops, "CacheGet")
                                       ELSE hh.ops]]
    /\ UNCHANGED <<wl, now, db, cache, nreq, conns, runs, streamVars, cv>>

\* serveQuery on a stale entry: a.rti.CacheSet(cacheKey, nil)
serveQueryExpire(hid) ==
    /\ rq[hid].pc = "expire"
    /\ cache' = CacheDelete(cache, rq[hid].key)
    /\ rq' = [rq EXCEPT ![hid].pc = "withTx",
                        ![hid].ops = Append(rq[hid].ops, "CacheSet(nil)")]
    /\ UNCHANGED <<wl, now, db, nreq, conns, runs, streamVars, cv>>

\* serveQuery: a.ds.withTx acquires a connection and runs the query; on an
\* error the response is 500 and nothing else happens
serveQueryTx(hid) ==
    /\ rq[hid].pc = "withTx"
    /\ \E ok \in BOOLEAN :
          rq' = [rq EXCEPT ![hid] =
              IF ok
              THEN [@ EXCEPT !.pc = "encode", !.rows = db,
                             !.ops = @ \o <<"acquire", "sql">>]
              ELSE [@ EXCEPT !.pc = "done", !.status = 500,
                             !.body = Body("error", "", <<>>, 0),
                             !.ops = @ \o <<"acquire", "sql">>]]
    /\ UNCHANGED <<wl, now, db, cache, nreq, conns, runs, streamVars, cv>>

\* a faulty shouldStore: a body whose encoding failed is stored as well
shouldStore_anyBody(encoded, useCache, key) == useCache /\ key > 0

\* serveQuery: err == nil of the encoder, and useCache && cacheKey > 0
shouldStore(encoded, useCache, key) == encoded /\ useCache /\ key > 0

\* serveQuery: the timestamp is written to the buffer, then the encoder
\* writes the rows to the response and to the buffer
serveQueryEncode(hid) ==
    /\ rq[hid].pc = "encode"
    /\ \E ok \in BOOLEAN :
          LET hh == rq[hid]
              ep == Endpoints[hh.e]
          IN  rq' = [rq EXCEPT ![hid] =
                  [hh EXCEPT !.pc = IF shouldStore(ok, hh.useCache, hh.key)
                                    THEN "store" ELSE "done",
                             !.ts = now, !.status = 200,
                             !.body = Body(IF ok THEN "rows" ELSE "truncated",
                                           ep.uri, hh.params, hh.rows),
                             !.ops = Append(hh.ops, "encode")]]
    /\ UNCHANGED <<wl, now, db, cache, nreq, conns, runs, streamVars, cv>>

\* serveQuery: a.rti.CacheSet(cacheKey, cacheValueBuf.Bytes())
serveQueryStore(hid) ==
    /\ rq[hid].pc = "store"
    /\ LET hh == rq[hid]
       IN  cache' = CacheSet(cache, hh.key,
                             Entry(hh.ts, hh.body, Endpoints[hh.e].uri, hh.params))
    /\ rq' = [rq EXCEPT ![hid].pc = "done",
                        ![hid].ops = Append(rq[hid].ops, "CacheSet")]
    /\ UNCHANGED <<wl, now, db, nreq, conns, runs, streamVars, cv>>

\* execResult as serveExec encodes it: er.RowsAffected is assigned by the
\* callback once the statement has run, er.Error after withTx returned
ExecResult(n, err) == [kind |-> "execResult", rowsAffected |-> n, error |-> err]

\* a faulty end of BeginTxFunc: the transaction commits whatever the
\* callback returned
txEnd_commitAlways(cbOk, commitOk) ==
    IF commitOk THEN [log |-> <<"commit">>, err |-> "", applied |-> TRUE]
    ELSE [log |-> <<"commit">>, err |-> "commit", applied |-> FALSE]

\* pool.BeginTxFunc after the callback returned: rollback and the error of
\* the callback, or commit and its error
txEnd(cbOk, commitOk) ==
    IF ~cbOk THEN [log |-> <<"rollback">>, err |-> "statement", applied |-> FALSE]
    ELSE IF commitOk THEN [log |-> <<"commit">>, err |-> "", applied |-> TRUE]
    ELSE [log |-> <<"commit">>, err |-> "commit", applied |-> FALSE]

\* pool.AcquireFunc after the callback returned: the statement stands alone
connEnd(cbOk) ==
    [log |-> <<>>, err |-> IF cbOk THEN "" ELSE "statement", applied |-> cbOk]

\* the rows a statement affects
RowCounts == {0, 2}

\* serveExec into a.ds.withTx: the connection is acquired and, with
\* transaction options, the transaction begun; a failure of either is the
\* error of withTx, and the connection is released
serveExecWithTx(hid) ==
    /\ rq[hid].pc = "serveExec"
    /\ LET ep == Endpoints[rq[hid].e]
       IN  \E fail \in {"", "acquire"} \cup (IF ep.tx THEN {"begin"} ELSE {}) :
              /\ rq' = [rq EXCEPT ![hid] =
                    IF fail = ""
                    THEN [@ EXCEPT !.pc = "withTx.cb",
                                   !.ops = Append(@, "acquire"),
                                   !.txlog = IF ep.tx THEN <<"acquire", "begin">>
                                             ELSE <<"acquire">>]
                    ELSE [@ EXCEPT !.pc = "done", !.status = 500, !.fail = fail,
                                   !.ops = Append(@, "acquire"),
                                   !.txlog = IF fail = "begin"
                                             THEN <<"acquire", "release">> ELSE <<>>,
                                   !.body = ExecResult(0, fail)]]
              /\ conns' = IF fail = ""
                          THEN [conns EXCEPT ![epDatasource] = @ + 1] ELSE conns
    /\ UNCHANGED <<wl, now, db, cache, nreq, runs, streamVars, cv>>

\* serveExec: the callback runs the statement, withTx commits or rolls
\* back and releases the connection, and the response is written
serveExec(hid) ==
    /\ rq[hid].pc = "withTx.cb"
    /\ \E cbOk \in BOOLEAN, commitOk \in BOOLEAN, n \in RowCounts :
          LET ep == Endpoints[rq[hid].e]
              end == IF ep.tx THEN txEnd(cbOk, commitOk) ELSE connEnd(cbOk)
              er == IF cbOk THEN n ELSE 0
          IN  /\ rq' = [rq EXCEPT ![hid].pc = "done",
                                  ![hid].status = IF end.err = "" THEN 200 ELSE 500,
                                  ![hid].fail = end.err,
                                  ![hid].body = ExecResult(er, end.err),
                                  ![hid].rows = IF cbOk THEN n ELSE 0 - 1,
                                  ![hid].ops = Append(@, "sql"),
                                  ![hid].txlog = @ \o <<"sql">> \o end.log
                                                   \o <<"release">>]
              /\ db' = IF end.applied /\ n > 0 THEN db + 1 ELSE db
    /\ conns' = [conns EXCEPT ![epDatasource] = @ - 1]
    /\ UNCHANGED <<wl, now, cache, nreq, runs, streamVars, cv>>

(***************************************************************************)
(* Running a script, a statement at a time.                                *)
(***************************************************************************)
\* a faulty runScript: one runtime for all invocations, so the globals that
\* the invocations in left defined and the result they assigned are kept
NewContext_shared(left) ==
    IF \E x \in left : x.global
    THEN [newScriptContext EXCEPT
             !.global = TRUE,
             !.result = (CHOOSE x \in left : x.global).result]
    ELSE newScriptContext

\* runScript, up to ctx.Eval: a runtime and a context of its own, whatever
\* the other invocations left
NewContext(left) == newScriptContext

\* a faulty acquire: the timeout is checked before the datasource name
acquire_timeoutFirst(args) ==
    IF Len(args) \notin {1, 2} THEN "$sys.acquire: needs 1 or 2 arguments"
    ELSE IF Len(args) = 2 /\ args[2].tag \notin {"int", "float64"}
    THEN "$sys.acquire: second argument must be timeout in seconds (number)"
    ELSE IF args[1].tag # "string"
    THEN "$sys.acquire: first argument must be datasource name (string)"
    ELSE IF args[1].v = "" THEN "$sys.acquire: datasource not specified"
    ELSE IF args[1].v \notin DSNames THEN "$sys.acquire: unknown datasource"
    ELSE ""

\* scriptContext.acquire, the checks of the arguments: the message thrown,
\* or "" when they pass
acquireArgs(args) ==
    IF Len(args) \notin {1, 2} THEN "$sys.acquire: needs 1 or 2 arguments"
    ELSE IF args[1].tag # "string"
    THEN "$sys.acquire: first argument must be datasource name (string)"
    ELSE IF args[1].v = "" THEN "$sys.acquire: datasource not specified"
    ELSE IF args[1].v \notin DSNames THEN "$sys.acquire: unknown datasource"
    ELSE IF Len(args) = 2 /\ args[2].tag \notin {"int", "float64"}
    THEN "$sys.acquire: second argument must be timeout in seconds (number)"
    ELSE ""

\* ctx.ThrowError(msg): the equivalent of throw new Error(msg)
ThrowError(js, msg) == [js EXCEPT !.thrown = <<JSError(msg)>>]

\* scriptContext.acquire: the checks, then the pool; the connection is
\* stored under the name of its datasource and captured by the object the
\* script gets
acquire(js, args, ok) ==
    LET msg == acquireArgs(args)
        d == args[1].v
    IN  IF msg # "" THEN ThrowError(js, msg)
        ELSE IF ~ok THEN ThrowError(js, "$sys.acquire: failed to acquire")
        ELSE [js EXCEPT !.conns[d] = 1, !.obj = d, !.taken[d] = @ + 1]

\* one statement of the script; ok: the pool or the database succeeds
evalStatement(js, st, ok) ==
    CASE st.op = "acquire" -> acquire(js, st.args, ok)
      [] st.op = "exec" ->
           IF js.obj = "" THEN ThrowError(js, "TypeError")
           ELSE IF ok THEN js ELSE ThrowError(js, "exec failed")
      [] st.op = "result" -> [js EXCEPT !.result = st.v]
      [] st.op = "throw" -> [js EXCEPT !.thrown = <<st.v>>]
      [] st.op = "readGlobal" ->
           [js EXCEPT !.result = JSString(IF js.global THEN "seen" ELSE "fresh")]
      [] OTHER -> [js EXCEPT !.global = TRUE]

\* fmt.Sprintf("%v", result) of val2any(v), as pieces of text: an Error
\* object gives the text of its toString
Sprint(v) ==
    CASE v.tag \in {"undefined", "null"} -> <<"<nil>">>
      [] v.tag = "object" /\ v.class = "Error" -> <<"Error: ", v.v>>
      [] v.tag = "object" /\ v.class = "Array" -> <<"[", v.v, "]">>
      [] v.tag = "object" -> <<"map[", v.v, "]">>
      [] v.v = "" -> <<>>
      [] OTHER -> <<v.v>>

\* json.Encoder.Encode of val2any(v): an Error object is a struct with the
\* field Message
Encode(v) ==
    IF v.class = "Error" THEN <<"{Message: ", "Error: ", v.v, "}", "\n">>
    ELSE <<v.v, "\n">>

\* the return values of runScript: $sys.result when ctx.Eval gave an
\* undefined exception, else the exception as the result and its text
\* as the error
scriptReturn(js) ==
    IF js.thrown = <<>> \/ js.thrown[1].tag = "undefined"
    THEN [result |-> js.result, err |-> FALSE, msg |-> <<>>]
    ELSE [result |-> js.thrown[1], err |-> TRUE,
          msg |-> IF Sprint(js.thrown[1]) = <<>> THEN <<"script error">>
                  ELSE Sprint(js.thrown[1])]

\* what a script handler writes
Response(status, ct, text) ==
    [status |-> status, body |-> [kind |-> "script", ct |-> ct, text |-> text]]

\* a faulty writeResult: an array is encoded as an object is
writeResult_arrays(code, v) ==
    CASE v.tag = "string" ->
           <<Response(code, "text/plain; charset=utf8", <<v.v>>)>>
      [] v.tag = "object" ->
           <<Response(code, "application/json", Encode(v))>>
      [] OTHER -> <<>>

\* writeResult in runScriptHandler: a string as text, an object that is no
\* array as JSON; else nothing is written
writeResult(code, v) ==
    CASE v.tag = "string" ->
           <<Response(code, "text/plain; charset=utf8", <<v.v>>)>>
      [] v.tag = "object" /\ v.class # "Array" ->
           <<Response(code, "application/json", Encode(v))>>
      [] OTHER -> <<>>

\* runScriptHandler after runScript returned ret
scriptResponse(ret) ==
    LET noResult == ret.result.tag \in {"undefined", "null"}
        w(code) == writeResult(code, ret.result)
    IN  IF ret.err
        THEN IF noResult THEN Response(500, "", ret.msg)
             ELSE IF w(500) # <<>> THEN w(500)[1]
             ELSE Response(500, "", <<"script error">>)
        ELSE IF noResult THEN Response(204, "", <<>>)
        ELSE IF w(200) # <<>> THEN w(200)[1]
        ELSE Response(500, "text/plain; charset=utf-8",
                      <<"unsupported result type from script", "\n">>)

\* scriptContext.close: the connections stored in sctx.conns are released
close(js, cs) == [d \in DSNames |-> cs[d] - js.conns[d]]

\* what a pool or the database can answer to a statement: an acquire and
\* a statement succeed or fail
answers(st) ==
    IF st.op = "exec" \/ (st.op = "acquire" /\ acquireArgs(st.args) = "")
    THEN BOOLEAN ELSE {TRUE}

\* runScript, up to ctx.Eval: the sandbox is made
runScript(hid) ==
    /\ rq[hid].pc = "runScriptHandler"
    /\ rq' = [rq EXCEPT ![hid].pc = "Eval",
                        ![hid].ip = 1,
                        ![hid].js = NewContext({rq[x].js : x \in Handlers \ {hid}}),
                        ![hid].ops = Append(@, "script")]
    /\ UNCHANGED <<wl, now, db, cache, nreq, conns, runs, streamVars, cv>>

\* ctx.Eval: the next statement of the script; an exception ends it
Eval(hid) ==
    /\ rq[hid].pc = "Eval"
    /\ LET script == Endpoints[rq[hid].e].script
           ip == rq[hid].ip
       IN  IF ip > Len(script)
           THEN /\ rq' = [rq EXCEPT ![hid].pc = "close"]
                /\ UNCHANGED <<db, conns>>
           ELSE \E ok \in answers(script[ip]) :
                   LET was == rq[hid].js
                       js == evalStatement(was, script[ip], ok)
                       asked == script[ip].op \in {"acquire", "exec"}
                   IN  /\ rq' = [rq EXCEPT
                                    ![hid].js = [js EXCEPT !.env =
                                                    IF asked THEN Append(@, ok)
                                                    ELSE @],
                                    ![hid].ip = ip + 1,
                                    ![hid].pc = IF js.thrown # <<>>
                                                THEN "close" ELSE "Eval"]
                       /\ conns' = [d \in DSNames |->
                                      conns[d] + js.taken[d] - was.taken[d]]
                       /\ db' = IF script[ip].op = "exec" /\ ok
                                   /\ js.thrown = <<>>
                                THEN db + 1 ELSE db
    /\ UNCHANGED <<wl, now, cache, nreq, runs, streamVars, cv>>

\* runScriptHandler: runScript closes the sandbox and returns, and the
\* response is written
runScriptHandler(hid) ==
    /\ rq[hid].pc = "close"
    /\ LET resp == scriptResponse(scriptReturn(rq[hid].js))
       IN  rq' = [rq EXCEPT ![hid].pc = "done",
                            ![hid].status = resp.status,
                            ![hid].body = resp.body,
                            ![hid].js.conns = [d \in DSNames |-> 0],
                            ![hid].js.obj = ""]
    /\ conns' = close(rq[hid].js, conns)
    /\ UNCHANGED <<wl, now, db, cache, nreq, runs, streamVars, cv>>

(***************************************************************************)
(* Jobs: cron calls jobRunner on a goroutine of its own at each scheduled  *)
(* time of a job, whatever its earlier runs did and whether they have      *)
(* returned.  The statements of the jobs write tables no query reads.      *)
(***************************************************************************)
\* cron fires job j: the run gets the first free identity
cronFire(j) ==
    /\ wl.name = "jobs" /\ cron = "running"
    /\ \E id \in RunIds :
          /\ runs[id].pc = "none"
          /\ \A x \in 1 .. id - 1 : runs[x].pc # "none"
          /\ runs' = [runs EXCEPT ![id] = [noRun EXCEPT !.pc = "runJob", !.job = j]]
    /\ UNCHANGED <<wl, now, db, cache, rq, nreq, conns, streamVars, cv>>

\* runJob: withTx acquires a connection and begins the transaction for a
\* statement; runScript makes the sandbox for a script
runJob(id) ==
    /\ runs[id].pc = "runJob"
    /\ LET job == CronJobs[runs[id].job]
       IN  IF job.type = "exec"
           THEN \E fail \in {"", "acquire"} \cup (IF job.tx THEN {"begin"} ELSE {}) :
                   /\ runs' = [runs EXCEPT
                                  ![id].pc = IF fail = "" THEN "withTx.cb" ELSE "done",
                                  ![id].failed = fail # "",
                                  ![id].out[job.datasource] =
                                      IF fail = "" THEN @ + 1 ELSE @]
                   /\ conns' = IF fail = ""
                               THEN [conns EXCEPT ![job.datasource] = @ + 1]
                               ELSE conns
           ELSE /\ runs' = [runs EXCEPT
                               ![id].pc = "Eval", ![id].ip = 1,
                               ![id].js = NewContext(
                                   {rq[x].js : x \in Handlers} \cup
                                   {runs[x].js : x \in RunIds \ {id}})]
                /\ conns' = conns
    /\ UNCHANGED <<wl, now, db, cache, rq, nreq, streamVars, cv>>

\* runJob, the callback: q.Exec under the timeout of the job, then commit
\* or rollback and the release; an error is logged
runJobExec(id) ==
    /\ runs[id].pc = "withTx.cb"
    /\ LET job == CronJobs[runs[id].job]
       IN  \E cbOk \in BOOLEAN : \E commitOk \in BOOLEAN :
              LET end == IF job.tx THEN txEnd(cbOk, commitOk) ELSE connEnd(cbOk)
              IN  /\ runs' = [runs EXCEPT ![id].pc = "done",
                                          ![id].failed = end.err # "",
                                          ![id].out[job.datasource] = @ - 1]
                  /\ conns' = [conns EXCEPT ![job.datasource] = @ - 1]
    /\ UNCHANGED <<wl, now, db, cache, rq, nreq, streamVars, cv>>

\* runScript for a job: the next statement of the script
runJobEval(id) ==
    /\ runs[id].pc = "Eval"
    /\ LET script == CronJobs[runs[id].job].script
           ip == runs[id].ip
       IN  IF ip > Len(script)
           THEN /\ runs' = [runs EXCEPT ![id].pc = "close"]
                /\ conns' = conns
           ELSE \E ok \in answers(script[ip]) :
                   LET was == runs[id].js
                       js == evalStatement(was, script[ip], ok)
                       got == [d \in DSNames |-> js.taken[d] - was.taken[d]]
                   IN  /\ runs' = [runs EXCEPT
                                      ![id].js = js,
                                      ![id].ip = ip + 1,
                                      ![id].out = [d \in DSNames |-> @[d] + got[d]],
                                      ![id].pc = IF js.thrown # <<>>
                                                 THEN "close" ELSE "Eval"]
                       /\ conns' = [d \in DSNames |-> conns[d] + got[d]]
    /\ UNCHANGED <<wl, now, db, cache, rq, nreq, streamVars, cv>>

\* runScript for a job: the sandbox is closed and freed; runJob logs the
\* error
runJobClose(id) ==
    /\ runs[id].pc = "close"
    /\ runs' = [runs EXCEPT
                   ![id].pc = "done",
                   ![id].ip = 0,
                   ![id].failed = scriptReturn(runs[id].js).err,
                   ![id].out = close(runs[id].js, @),
                   ![id].js = newScriptContext]
    /\ conns' = close(runs[id].js, conns)
    /\ UNCHANGED <<wl, now, db, cache, rq, nreq, streamVars, cv>>

\* time passes
tick ==
    /\ now < wl.time
    /\ now' = now + 1
    /\ UNCHANGED <<wl, db, cache, rq, nreq, conns, runs, streamVars, cv>>

\* another client of the database changes the rows the queries read
dataChange ==
    /\ db < wl.data
    /\ db' = db + 1
    /\ UNCHANGED <<wl, now, cache, rq, nreq, conns, runs, streamVars, cv>>

ServeNext ==
    \/ \E hid \in Handlers : request(hid)
    \/ \E hid \in Handlers : serve(hid)
    \/ \E hid \in Handlers : serveQueryProbe(hid)
    \/ \E hid \in Handlers : serveQueryExpire(hid)
    \/ \E hid \in Handlers : serveQueryTx(hid)
    \/ \E hid \in Handlers : serveQueryEncode(hid)
    \/ \E hid \in Handlers : serveQueryStore(hid)
    \/ \E hid \in Handlers : serveExecWithTx(hid)
    \/ \E hid \in Handlers : serveExec(hid)
    \/ \E hid \in Handlers : runScript(hid)
    \/ \E hid \in Handlers : Eval(hid)
    \/ \E hid \in Handlers : runScriptHandler(hid)
    \/ \E j \in 1 .. Len(CronJobs) : cronFire(j)
    \/ \E id \in RunIds : runJob(id)
    \/ \E id \in RunIds : runJobExec(id)
    \/ \E id \in RunIds : runJobEval(id)
    \/ \E id \in RunIds : runJobClose(id)
    \/ tick
    \/ dataChange

ServeSpec == ServeInit /\ [][ServeNext]_vars

(***************************************************************************)
(* The calls of an embedder with a configuration, before any server        *)
(* exists: Validate, IsValid and NewAPIServer.                             *)
(***************************************************************************)
ConfigInit ==
    /\ sc = [name |-> "config", clients |-> NoClients, notifs |-> 0, chans |-> {},
             stop |-> FALSE, fail |-> FALSE, jobs |-> FALSE, env |-> {}]
    /\ startPc = "new" /\ startErr = "none" /\ dsIdx = 0 /\ attempted = <<>>
    /\ pool = [d \in DSNames |-> "none"]
    /\ bgctx = "none" /\ cron = "new" /\ srv = "nil"
    /\ stopPc = "idle" /\ stopErr = "none" /\ stopLog = <<>>
    /\ jobPc = [j \in Jobs |-> "idle"]
    /\ panics = {}
    /\ ndStored = {} /\ nd = [d \in DispDS |-> newNotifDispatcher(d)]
    /\ nsent = 0 /\ stopCur = "" /\ stopSeen = {}
    /\ nw = [c \in Clients |-> newNotifWriter]
    /\ h = [c \in Clients |-> newHandler]
    /\ offered = [c \in Clients |-> <<>>]
    /\ written = [c \in Clients |-> <<>>]
    /\ fanned = [c \in Clients |-> <<>>]
    /\ regOrder = <<>>
    /\ wl = [name |-> "none", handlers |-> {}, eps |-> {}, sample |-> "few",
             rti |-> FALSE, reqs |-> 0, time |-> 0, data |-> 0]
    /\ now = 0 /\ db = 0 /\ cache = NoCache
    /\ rq = [hid \in Handlers |-> idleHandler]
    /\ nreq = 0
    /\ conns = [d \in DSNames |-> 0]
    /\ runs = [id \in RunIds |-> noRun]
    /\ cv \in {newCalls(c) : c \in Configs}

\* cfg.Validate()
Validate ==
    /\ cv.cfg # NilConfig /\ "Validate" \notin cv.called
    /\ cv' = [cv EXCEPT !.called = @ \cup {"Validate"}, !.r = validate(cv.cfg)]
    /\ UNCHANGED <<streamVars, reqVars>>

\* cfg.IsValid()
ConfigIsValid ==
    /\ cv.cfg # NilConfig /\ "IsValid" \notin cv.called
    /\ cv' = [cv EXCEPT !.called = @ \cup {"IsValid"}, !.valid = IsValid(cv.cfg)]
    /\ UNCHANGED <<streamVars, reqVars>>

\* NewAPIServer(cfg, rti)
ConfigNewAPIServer ==
    /\ "NewAPIServer" \notin cv.called
    /\ cv' = [cv EXCEPT !.called = @ \cup {"NewAPIServer"},
                        !.new = NewAPIServer(cv.cfg)]
    /\ UNCHANGED <<streamVars, reqVars>>

\* datasources.start with every dsconnect succeeding: d.pools.Store(s.Name,
\* pool) for each source, so d.pools holds the names of the sources
start(sources) == {sources[i].name : i \in 1 .. Len(sources)}

\* datasources.get: the pool stored under the name, or an error
get(pools, name) ==
    IF name \notin pools THEN [ok |-> FALSE, err |-> "datasource not found"]
    ELSE [ok |-> TRUE, err |-> ""]

\* Start of the server NewAPIServer returned, every datasource reachable
ConfigStart ==
    /\ "NewAPIServer" \in cv.called /\ cv.new.server
    /\ "Start" \notin cv.called
    /\ cv' = [cv EXCEPT !.called = @ \cup {"Start"},
                        !.pools = start(cv.cfg.datasources)]
    /\ UNCHANGED <<streamVars, reqVars>>

ConfigNext == Validate \/ ConfigIsValid \/ ConfigNewAPIServer \/ ConfigStart

ConfigSpec == ConfigInit /\ [][ConfigNext]_vars

(***************************************************************************)
(* Properties                                                              *)
(***************************************************************************)
\* the writer the dispatcher of d is calling accept on
target(d) == nd[d].c2ws[nd[d].disp.n.channel][nd[d].disp.i]

\* the dispatcher of d is inside the accept call for a writer
inAccept(d) == nd[d].disp.at \in {"accept", "closeQ"}

IsPayload(x) == x > 0

\* the payloads among what a loop wrote (0 is the SSE comment)
payloads(s) == SelectSeq(s, IsPayload)

IsPrefix(a, b) == Len(a) <= Len(b) /\ \A i \in 1..Len(a) : a[i] = b[i]

Contains(s, x) == \E i \in 1..Len(s) : s[i] = x

\* the position of a writer in the order the registers were applied
regPos(c) == CHOOSE k \in 1..Len(regOrder) : regOrder[k] = c

\* C1: a subscriber's queue never holds more than notifWriterBacklog (16)
\* payloads, and accept never makes the dispatcher wait: on an open queue
\* with fewer than 16 pending payloads accept enqueues the payload; on an
\* open queue that holds 16 it enqueues nothing and calls closeQ, which
\* closes the queue (the payload is dropped).  Both steps of accept are
\* always enabled.  (Accept on a closed queue is C4.)
C1_BoundedNonBlocking ==
    /\ [](\A c \in Clients : Len(nw[c].q) <= notifWriterBacklog)
    /\ [](\A d \in DispDS : ~crashed =>
            /\ nd[d].disp.at = "accept" => ENABLED dispatcherAccept(d)
            /\ nd[d].disp.at = "closeQ" => ENABLED dispatcherCloseQ(d))
    /\ [][\A d \in DispDS :
            /\ dispatcherAccept(d) /\ nw[target(d)].closes = 0 =>
                 IF Len(nw[target(d)].q) < notifWriterBacklog
                 THEN /\ nw'[target(d)].q =
                            Append(nw[target(d)].q, nd[d].disp.n.payload)
                      /\ nw'[target(d)].closes = 0
                      /\ nd'[d].disp.at # "closeQ"
                 ELSE /\ Len(nw[target(d)].q) = notifWriterBacklog
                      /\ nw'[target(d)].q = nw[target(d)].q
                      /\ nd'[d].disp.at = "closeQ"
            /\ dispatcherCloseQ(d) =>
                 /\ nw'[target(d)].closes > 0
                 /\ nw'[target(d)].q = nw[target(d)].q]_vars

\* a subscriber whose full queue the dispatcher has closed while its loop
\* is still running
C1_Witness ==
    \E c \in Clients : /\ Len(nw[c].q) = notifWriterBacklog
                        /\ nw[c].qClosed
                        /\ h[c].pc = "loop"
                        /\ Len(offered[c]) = notifWriterBacklog + 1

\* C2: what a subscriber's loop wrote is, in order and without duplicate or
\* gap, a prefix of the payloads the dispatcher took from nd.in on the
\* subscriber's channel after it applied the subscriber's register; the
\* subscriber list of a channel is in registration order, and a fan-out
\* offers the payload to the writers in the order of that list.
C2_OrderedPrefix ==
    /\ \A c \in Clients : IsPrefix(payloads(written[c]), fanned[c])
    /\ \A d \in DispDS : \A ch \in ds2pgchans[d] :
          LET ws == nd[d].c2ws[ch]
          IN  \A i, j \in 1..Len(ws) :
                i < j => /\ Contains(regOrder, ws[i])
                         /\ Contains(regOrder, ws[j])
                         /\ regPos(ws[i]) < regPos(ws[j])
    /\ \A d \in DispDS : inAccept(d) =>
          LET ws == nd[d].c2ws[nd[d].disp.n.channel]
              p  == nd[d].disp.n.payload
          IN  \A k \in 1..Len(ws) :
                Contains(offered[ws[k]], p) <=>
                   (k < nd[d].disp.i \/ (k = nd[d].disp.i /\ nd[d].disp.at = "closeQ"))

\* two subscribers of one channel, one has written two payloads and the
\* other at least one
C2_Witness ==
    \E c, e \in Clients :
        /\ c # e
        /\ sc.clients[c] # "none" /\ sc.clients[e] # "none"
        /\ stream(c).channel = stream(e).channel
        /\ Len(payloads(written[c])) >= 2
        /\ Len(payloads(written[e])) >= 1

\* C3 (as claimed): when the dispatcher takes a notification from nd.in,
\* every client that was connected when the notification arrived, on that
\* channel, and whose queue is open, is in the channel's subscriber list
\* (so the notification is enqueued for it): its register command is not
\* still pending in nd.cmd.
C3_ConnectedIsRegistered ==
    [][\A d \in DispDS : dispatcherNotif(d) =>
          \A c \in Head(nd[d].inq).after :
             (/\ stream(c).ds = d
              /\ stream(c).channel = Head(nd[d].inq).channel
              /\ nw[c].closes = 0)
             => Contains(nd[d].c2ws[stream(c).channel], c)]_vars

\* C4: accept on a closed queue (closed by eviction or by the loop's exit)
\* enqueues nothing and never blocks: both of its steps are enabled and
\* leave the writer as it is; the queue is closed at most once however the
\* closeQ calls interleave (a second close(n.q) would panic), qClosed says
\* exactly whether it is closed, and a closed queue stays closed and only
\* shrinks.
C4_ClosedQueueTolerated ==
    /\ [](\A c \in Clients : /\ nw[c].closes <= 1
                              /\ nw[c].qClosed <=> nw[c].closes = 1)
    /\ [](\A d \in DispDS : (~crashed /\ inAccept(d) /\ nw[target(d)].closes > 0) =>
            /\ nd[d].disp.at = "accept" => ENABLED dispatcherAccept(d)
            /\ nd[d].disp.at = "closeQ" => ENABLED dispatcherCloseQ(d))
    /\ [][\A d \in DispDS :
            ((dispatcherAccept(d) \/ dispatcherCloseQ(d)) /\ nw[target(d)].closes > 0)
            => nw'[target(d)] = nw[target(d)]]_vars
    /\ [][\A c \in Clients : nw[c].closes > 0 =>
            /\ nw'[c].closes = nw[c].closes
            /\ Len(nw'[c].q) <= Len(nw[c].q)]_vars

\* the dispatcher, after its send panicked on the queue the loop closed on
\* its exit, is about to call closeQ on that closed queue
C4_Witness ==
    \E d \in DispDS : /\ nd[d].disp.at = "closeQ"
                       /\ nw[target(d)].qClosed
                       /\ h[target(d)].pc \in {"exited", "done"}
                       /\ h[target(d)].err # "tooSlow"

\* the dispatcher has closed the queue of a subscriber whose loop runs
evicted(c) == h[c].pc = "loop" /\ nw[c].qClosed

\* the transport loop of the subscriber has returned
ended(c) == h[c].pc \in {"exited", "done"}

\* C5: the loop of an evicted subscriber eventually returns (unless the
\* process dies first); when it returns with neither a cancelled context
\* nor a failing write it returns errTooSlow, the queue drained, and a
\* websocket is closed with StatusPolicyViolation ("connection too slow");
\* a loop that has returned writes nothing more to the client.
C5_EvictedLoopEnds ==
    /\ \A c \in Clients : evicted(c) ~> (ended(c) \/ crashed)
    /\ [][\A c \in Clients :
            (evicted(c) /\ ended(c)' /\ ~ctxDone(c) /\ bgctx # "cancelled"
                /\ ~h[c].gone /\ h[c].ws \in {"none", "open"})
            => /\ h'[c].err = "tooSlow"
               /\ nw[c].q = <<>>
               /\ stream(c).type = "websocket" => h'[c].ws = "policy:slow"]_vars
    /\ [](\A c \in Clients : h[c].err = "tooSlow" =>
            /\ ended(c) /\ nw[c].qClosed /\ nw[c].q = <<>>
            /\ Len(offered[c]) > Len(payloads(written[c])))
    /\ [][\A c \in Clients : ended(c) =>
            /\ written'[c] = written[c]
            /\ ended(c)']_vars

\* an evicted subscriber whose loop wrote the whole backlog and returned
\* errTooSlow
C5_Witness ==
    \E c \in Clients : /\ ended(c)
                        /\ h[c].err = "tooSlow"
                        /\ Len(payloads(written[c])) = notifWriterBacklog
                        /\ h[c].ws \in {"none", "policy:slow"}

\* C6: when the client of a websocket stream sends a data frame the socket
\* is closed with StatusPolicyViolation and stays so, the subscriber's loop
\* eventually returns (unless the process dies first), and from the data
\* frame on nothing is written to that client.
C6_DataFrameClosesSocket ==
    /\ [][\A c \in Clients : clientData(c) =>
            /\ stream(c).type = "websocket"
            /\ h'[c].ws = "policy:data"]_vars
    /\ \A c \in Clients : (h[c].ws = "policy:data") ~> (ended(c) \/ crashed)
    /\ [][\A c \in Clients : h[c].ws = "policy:data" =>
            /\ h'[c].ws = "policy:data"
            /\ written'[c] = written[c]]_vars
    /\ [](\A c \in Clients : (h[c].ws = "policy:data" /\ ended(c)) =>
            h[c].err \in {"canceled", "write", "tooSlow"})

\* after a data frame the loop has returned, and a payload notified to the
\* subscriber was not written
C6_Witness ==
    \E c \in Clients : /\ h[c].ws = "policy:data"
                        /\ ended(c)
                        /\ Len(offered[c]) > Len(payloads(written[c]))

\* a stream handler puts a command on the cmd channel of dispatcher d, or
\* panics trying to
handlerSends(c, d) ==
    /\ register(c) \/ serveStreamEnd(c)
    /\ stream(c).ds = d
    /\ nd'[d].cmd # nd[d].cmd \/ panics' # panics

\* C7 (as claimed): once Stop has cancelled a.bgctx, a loop that returns
\* returns context.Canceled, and no stream handler sends a command to a
\* dispatcher whose stop has begun.
C7_NoCommandToStoppedDispatcher ==
    [][/\ \A c \in Clients :
            (bgctx = "cancelled" /\ h[c].pc = "loop" /\ ended(c)')
            => h'[c].err = "canceled"
       /\ \A c \in Clients : \A d \in DispDS :
            nd[d].stopping => ~handlerSends(c, d)]_vars

\* the steps Stop logs, in the order of the claim
StopOrder(k) ==
    <<"cron", "cancel">> \o [i \in 1..k |-> "dispatcher"] \o <<"shutdown", "pools">>

\* a dispatcher that nd.stop() has stopped
ndStopped(d) == /\ nd[d].disp.at = "exit"
                /\ nd[d].conn = "closed"
                /\ nd[d].cmdClosed /\ nd[d].inClosed

C9_StartStopClean ==
    (sc.clients = NoClients /\ startErr = "nil") =>
        /\ ~crashed
        /\ stopPc = "done" =>
              /\ stopErr = "nil"
              /\ cron = "stopped"
              /\ srv = "nil"
              /\ \A d \in DSNames : pool[d] = "closed"
              /\ \A d \in ndStored : ndStopped(d)

\* C10: dsconnect is called on the sources in configuration order, one
\* after the other; when it fails on source k, Start returns the error, no
\* source after k is ever attempted, nothing else is started, and every
\* pool opened for the sources before k is closed.
C10_SequentialConnect ==
    /\ IsPrefix(attempted, Datasources)
    /\ \A i \in 1..Len(Datasources) :
          pool[Datasources[i]] # "none" => i <= Len(attempted)
    /\ (startPc = "ds" /\ dsIdx <= Len(Datasources)) =>
          /\ Len(attempted) = dsIdx - 1
          /\ \A i \in 1..Len(attempted) : pool[Datasources[i]] = "open"
    /\ startErr = "connect" =>
          /\ startPc = "done"
          /\ attempted # <<>>
          /\ \A i \in 1..Len(Datasources) :
                pool[Datasources[i]] =
                   IF i < Len(attempted) THEN "closed" ELSE "none"
          /\ ndStored = {} /\ cron = "new" /\ srv = "nil"

\* the connection to the last source failed after the earlier ones were
\* opened
C10_Witness ==
    /\ startErr = "connect"
    /\ attempted = Datasources
    /\ pool[Datasources[1]] = "closed"

(***************************************************************************)
(* The cache.                                                              *)
(***************************************************************************)
\* the handlers that have finished a request
finished(hid) == rq[hid].pc = "done"

\* C11: at every point of any sequence of requests, every entry of the
\* cache is the whole body of a query whose SQL operation and whose
\* encoding both succeeded, and a request that ends in 400 or 500 has never
\* called cache-set with a value.
C11_OnlySuccessCached ==
    /\ \A k \in DOMAIN cache :
          /\ cache[k].body.kind = "rows"
          /\ cache[k].body.db \in 0 .. db
    /\ \A hid \in Handlers :
          /\ rq[hid].status \in {400, 500} => ~Contains(rq[hid].ops, "CacheSet")
          /\ rq[hid].pc = "store" => rq[hid].body.kind = "rows"
          /\ (finished(hid) /\ rq[hid].body.kind = "truncated")
                => ~Contains(rq[hid].ops, "CacheSet")

\* with an entry in the cache, a later request of the cached endpoint ran
\* its query and ended in 500
C11_Witness ==
    /\ DOMAIN cache # {}
    /\ \E hid \in Handlers :
          /\ finished(hid) /\ rq[hid].useCache /\ rq[hid].status = 500
          /\ Contains(rq[hid].ops, "sql")

\* the entry an identical request (same URI, same coerced parameters) left
\* in the cache for the request handler hid is about to probe the cache for
storedForSame(hid) ==
    IF rq[hid].pc # "serveQuery" THEN [found |-> FALSE, key |-> 0]
    ELSE LET ep == Endpoints[rq[hid].e]
             key == makeCacheKey(ep.uri, rq[hid].params)
         IN  [found |-> /\ wl.rti /\ cacheTTLNanos(ep) > 0 /\ key # 0
                        /\ key \in DOMAIN cache
                        /\ cache[key].by = [uri |-> ep.uri, args |-> rq[hid].params],
              key |-> key]

\* C12: on a query endpoint with a cache TTL T > 0 and a runtime cache, a
\* request that finds the body an identical request stored with timestamp
\* t0 answers, at any time t with t - t0 <= T, with exactly the stored
\* bytes, whatever the data is by then; at a time later than t0 + T it
\* does not, and its body comes from a new execution of the query.
C12_TimeToLive ==
    /\ [][\A hid \in Handlers :
             (storedForSame(hid).found /\ rq'[hid] # rq[hid]) =>
                 LET entry == cache[storedForSame(hid).key]
                 IN  IF now - entry.ts <= CacheTTL
                     THEN /\ rq'[hid].pc = "done" /\ rq'[hid].status = 200
                          /\ rq'[hid].body = entry.body
                     ELSE /\ rq'[hid].pc = "expire"
                          /\ rq'[hid].status = 0]_vars
    /\ [](\A hid \in Handlers :
             (finished(hid) /\ rq[hid].status = 200
                 /\ Contains(rq[hid].ops, "CacheSet(nil)")) =>
                 /\ Contains(rq[hid].ops, "sql")
                 /\ rq[hid].rows \in 0 .. db
                 /\ rq[hid].body.args = rq[hid].params
                 /\ rq[hid].body.db = rq[hid].rows)

\* a request was answered from an entry as old as the TTL, stored by an
\* identical request, after the data had changed
C12_Witness ==
    \E hid \in Handlers :
       /\ finished(hid) /\ rq[hid].hit
       /\ rq[hid].key \in DOMAIN cache
       /\ cache[rq[hid].key].by.args = rq[hid].params
       /\ now - cache[rq[hid].key].ts = CacheTTL
       /\ rq[hid].body = cache[rq[hid].key].body
       /\ rq[hid].body.db < db

\* the position of a step among the steps of a handler, 0 if it is not there
opAt(ops, x) == IF Contains(ops, x) THEN CHOOSE i \in 1 .. Len(ops) : ops[i] = x ELSE 0

\* C13: a handler that finds an entry whose age is within the TTL acquires
\* no connection, executes no SQL operation and leaves the cache as it is;
\* one that finds an older entry deletes it before it executes the query,
\* and goes on as a handler that found no entry does.
C13_HitFrame ==
    /\ [][\A hid \in Handlers :
             /\ (rq[hid].pc = "serveQuery" /\ rq'[hid] # rq[hid]) =>
                   /\ cache' = cache
                   /\ rq'[hid].hit => /\ rq'[hid].pc = "done"
                                      /\ rq'[hid].rows = rq[hid].rows
                                      /\ rq'[hid].ops = <<"getParams", "CacheGet">>
             /\ (rq[hid].pc = "expire" /\ rq'[hid] # rq[hid]) =>
                   /\ rq[hid].key \notin DOMAIN cache'
                   /\ \A k \in DOMAIN cache \ {rq[hid].key} :
                         k \in DOMAIN cache' /\ cache'[k] = cache[k]
                   /\ ~Contains(rq[hid].ops, "sql")
                   /\ rq'[hid] = [rq[hid] EXCEPT !.pc = "withTx",
                                     !.ops = Append(@, "CacheSet(nil)")]
                   /\ rq[hid].useCache /\ ~rq[hid].hit /\ rq[hid].status = 0]_vars
    /\ [](\A hid \in Handlers :
             /\ rq[hid].hit =>
                   /\ finished(hid)
                   /\ ~Contains(rq[hid].ops, "acquire")
                   /\ ~Contains(rq[hid].ops, "sql")
                   /\ ~Contains(rq[hid].ops, "CacheSet")
                   /\ ~Contains(rq[hid].ops, "CacheSet(nil)")
             /\ Contains(rq[hid].ops, "sql") /\ Contains(rq[hid].ops, "CacheSet(nil)")
                   => opAt(rq[hid].ops, "CacheSet(nil)") < opAt(rq[hid].ops, "acquire"))

\* a handler that deleted a stale entry has run the query and stored its
\* body, while the data is not what it was for the entry it deleted
C13_Witness ==
    \E hid \in Handlers :
       /\ finished(hid)
       /\ Contains(rq[hid].ops, "CacheSet(nil)")
       /\ Contains(rq[hid].ops, "CacheSet")
       /\ rq[hid].key \in DOMAIN cache
       /\ cache[rq[hid].key].body.db > 0

\* the URI and the coerced parameters handler hid called makeCacheKey with
keyedFor(hid) == [uri |-> Endpoints[rq[hid].e].uri, args |-> rq[hid].params]

C15_EntrySpecific ==
    \A hid \in Handlers :
       rq[hid].useCache =>
          /\ \A k \in DOMAIN cache :
                (cache[k].by.uri = keyedFor(hid).uri
                    /\ cache[k].by.args # keyedFor(hid).args)
                   => cache[k].fed
                         # digestInput(keyedFor(hid).uri, keyedFor(hid).args)
          /\ rq[hid].hit => rq[hid].body.args = rq[hid].params


(***************************************************************************)
(* Parameters                                                              *)
(***************************************************************************)
\* the place of a step in the order serve and its callees run them
stepRank(op) ==
    CASE op = "getParams" -> 1
      [] op = "CacheGet" -> 2
      [] op = "CacheSet(nil)" -> 3
      [] op = "acquire" -> 4
      [] op = "sql" -> 5
      [] op = "encode" -> 6
      [] op = "CacheSet" -> 7
      [] OTHER -> 8

\* C16: the steps of one request are strictly sequential, and a parameter
\* failure ends the request at once: when getParams fails (a required
\* parameter is missing, or a value fails coercion) the response is 400 and
\* the request does no cache probe, no acquire, no SQL, no script evaluation
\* and no cache store, whatever the implementation of the endpoint, static
\* ones included.
C16_ParamFailureEnds ==
    /\ [][\A hid \in Handlers :
             (rq[hid].pc = "serve" /\ rq'[hid] # rq[hid]
                 /\ getParams(Endpoints[rq[hid].e], rq[hid].req).err # "")
                => /\ rq'[hid].status = 400
                   /\ rq'[hid].pc = "done"
                   /\ rq'[hid].ops = <<"getParams">>
                   /\ rq'[hid].body.kind = "invalid parameter values"
                   /\ cache' = cache]_vars
    /\ [](\A hid \in Handlers :
             /\ rq[hid].status = 400 =>
                   /\ rq[hid].pc = "done"
                   /\ rq[hid].ops = <<"getParams">>
                   /\ ~rq[hid].useCache /\ ~rq[hid].hit
             /\ \A i \in 1 .. Len(rq[hid].ops) - 1 :
                   stepRank(rq[hid].ops[i]) < stepRank(rq[hid].ops[i + 1])
             /\ rq[hid].ops # <<>> => rq[hid].ops[1] = "getParams")

\* a static endpoint answered 400 because a value was not suitable
C16_Witness ==
    \E hid \in Handlers :
       /\ rq[hid].status = 400
       /\ Endpoints[rq[hid].e].impl \in {"static-text", "static-json"}
       /\ rq[hid].at > 0
       /\ getParam(rq[hid].req, Endpoints[rq[hid].e].params[rq[hid].at].in,
                   Endpoints[rq[hid].e].params[rq[hid].at].name).t # "notfound"


\* the request carries no value for parameter p at the location p declares
absent(req, p) ==
    CASE p.in = "path" ->
           p.name \notin DOMAIN req.path \/ req.path[p.name].s = <<>>
      [] p.in = "query" -> p.name \notin DOMAIN req.query
      [] OTHER -> p.name \notin DOMAIN req.body

\* C17: the declared parameters are processed in declaration order; when no
\* value is found for one at its declared location the request fails with
\* 400 if the parameter is required, and otherwise its slot is null and the
\* next parameter is processed; on success the result has exactly one slot
\* per declared parameter, in declaration order.
C17_MissingParameter ==
    [][\A hid \in Handlers :
          (rq[hid].pc = "serve" /\ rq'[hid] # rq[hid]) =>
             LET ps == Endpoints[rq[hid].e].params
                 req == rq[hid].req
                 failed == rq'[hid].status = 400
                 k == rq'[hid].at
             IN  /\ (\E i \in 1 .. Len(ps) : absent(req, ps[i]) /\ ps[i].required)
                       => failed
                 /\ failed =>
                       /\ k \in 1 .. Len(ps)
                       /\ absent(req, ps[k]) => ps[k].required
                       /\ \A i \in 1 .. k - 1 : ~(absent(req, ps[i]) /\ ps[i].required)
                 /\ ~failed =>
                       /\ Len(rq'[hid].params) = Len(ps)
                       /\ \A i \in 1 .. Len(ps) :
                             /\ absent(req, ps[i]) => rq'[hid].params[i] = Nil
                             /\ getParam(req, ps[i].in, ps[i].name).t # "notfound"
                                   => isSuitable(Endpoints[rq[hid].e], ps[i],
                                          noValueIsTrue(req, ps[i],
                                              getParam(req, ps[i].in, ps[i].name)))
                                      = Ok(rq'[hid].params[i])]_vars

\* a request without its first parameter and with its second one was
\* accepted: a null slot, then the slot of the value
C17_Witness ==
    \E hid \in Handlers :
       /\ rq[hid].pc # "idle" /\ rq[hid].status # 400
       /\ Len(rq[hid].params) = 3
       /\ absent(rq[hid].req, Endpoints[rq[hid].e].params[1])
       /\ rq[hid].params[1] = Nil
       /\ rq[hid].params[2].t = "string"


\* handler hid is past getParams
served(hid) == rq[hid].pc \notin {"idle", "serve"}

\* getParams of handler hid came to parameter i, and went past it
reached(hid, i) == served(hid) /\ (rq[hid].status # 400 \/ rq[hid].at >= i)

accepted(hid, i) == served(hid) /\ (rq[hid].status # 400 \/ rq[hid].at > i)

\* the number an input stands for: a JSON number, or the decimal text of a
\* string (of the query, of a form, of a JSON body)
numeric(v) ==
    CASE v.t = "float64" -> [ok |-> TRUE, f |-> v]
      [] v.t = "string" -> ParseFloat(v.s)
      [] v.t = "[]string" /\ Len(v.a) = 1 -> ParseFloat(v.a[1])
      [] OTHER -> [ok |-> FALSE, f |-> Float(0, 0)]

\* the input of handler hid for parameter i
input(hid, i) ==
    getParam(rq[hid].req, Endpoints[rq[hid].e].params[i].in,
             Endpoints[rq[hid].e].params[i].name)

\* parameter i of the endpoint of hid is an integer with a minimum and a
\* maximum and no enum, and the request has a numeric input for it
integerCase(hid, i) ==
    /\ reached(hid, i)
    /\ i <= Len(Endpoints[rq[hid].e].params)
    /\ LET p == Endpoints[rq[hid].e].params[i]
       IN  /\ p.type = "integer" /\ p.enum = <<>>
           /\ p.minimum # <<>> /\ p.maximum # <<>>
           /\ numeric(input(hid, i)).ok

\* C18 as stated: a numeric input for an integer parameter with minimum lo
\* and maximum hi is accepted, and coerced to that integer, if and only if
\* its value is in [lo, hi] and its fractional part is zero.
C18_ZeroFraction ==
    \A hid \in Handlers :
       served(hid) =>
          \A i \in 1 .. Len(Endpoints[rq[hid].e].params) :
             integerCase(hid, i) =>
                LET p == Endpoints[rq[hid].e].params[i]
                    x == numeric(input(hid, i)).f
                IN  /\ accepted(hid, i)
                       <=> /\ x.f = 0
                           /\ p.minimum[1].i <= x.i /\ x.i <= p.maximum[1].i
                    /\ rq[hid].status # 400 => rq[hid].params[i] = Int64(x.i)

\* C18, amended: a numeric input for an integer parameter with minimum lo
\* and maximum hi and no enum is accepted if and only if the part after its
\* decimal point is below 1e-9 in absolute value and its integer part
\* (the value truncated toward zero) is in [lo, hi], both bounds inclusive;
\* it is coerced to the integer part.  Every other numeric input gets 400.
C18_IntegerRange ==
    \A hid \in Handlers :
       served(hid) =>
          \A i \in 1 .. Len(Endpoints[rq[hid].e].params) :
             integerCase(hid, i) =>
                LET p == Endpoints[rq[hid].e].params[i]
                    x == numeric(input(hid, i)).f
                IN  /\ accepted(hid, i)
                       <=> /\ Abs(x.f) < Epsilon
                           /\ p.minimum[1].i <= x.i /\ x.i <= p.maximum[1].i
                    /\ rq[hid].status # 400 => rq[hid].params[i] = Int64(x.i)

\* an input one half of 1e-9 above the maximum was accepted as the maximum
C18_Witness ==
    \E hid \in Handlers :
       /\ served(hid) /\ rq[hid].status # 400
       /\ integerCase(hid, 1)
       /\ numeric(input(hid, 1)).f.f # 0
       /\ numeric(input(hid, 1)).f.i = Endpoints[rq[hid].e].params[1].maximum[1].i
       /\ rq[hid].params[1] = Int64(Endpoints[rq[hid].e].params[1].maximum[1].i)


\* the input of a string, integer or number parameter coerced to the type
\* of the parameter, as a sequence of length 1, or of length 0 if it does
\* not convert
coerced(type, v) ==
    LET n == numeric(v)
    IN  CASE type = "string" /\ v.t = "string" -> <<v.s>>
          [] type = "string" /\ v.t = "[]string" /\ Len(v.a) = 1 -> <<v.a[1]>>
          [] type = "integer" /\ n.ok /\ Abs(n.f.f) < Epsilon -> <<n.f.i>>
          [] type = "number" /\ n.ok -> <<n.f>>
          [] OTHER -> <<>>

\* the slot getParams fills for a coerced value
slot(type, c) ==
    CASE type = "string" -> String(c)
      [] type = "integer" -> Int64(c)
      [] OTHER -> c

\* C19: when a string, integer or number parameter declares an enum, a
\* supplied value is accepted if and only if, coerced to the type of the
\* parameter, it equals one of the enumerated values as coerced at startup;
\* minimum, maximum, maxLength and pattern have no effect on acceptance.
C19_EnumOnly ==
    \A hid \in Handlers :
       served(hid) =>
          \A i \in 1 .. Len(Endpoints[rq[hid].e].params) :
             LET p == Endpoints[rq[hid].e].params[i]
                 c == coerced(p.type, input(hid, i))
                 enum == paramInfo(p).enum
             IN  (/\ Len(p.enum) > 0
                  /\ p.type \in {"string", "integer", "number"}
                  /\ reached(hid, i)
                  /\ input(hid, i).t # "notfound")
                    => /\ accepted(hid, i)
                          <=> (c # <<>> /\ \E k \in 1 .. Len(enum) : enum[k] = c[1])
                       /\ rq[hid].status # 400
                             => rq[hid].params[i] = slot(p.type, c[1])

\* an enumerated integer above the maximum was accepted
C19_Witness ==
    \E hid \in Handlers :
       /\ served(hid) /\ rq[hid].status # 400
       /\ \E i \in 1 .. Len(Endpoints[rq[hid].e].params) :
             LET p == Endpoints[rq[hid].e].params[i]
             IN  /\ Len(p.enum) > 0 /\ p.type = "integer" /\ p.maximum # <<>>
                 /\ rq[hid].params[i].t = "int64"
                 /\ rq[hid].params[i].i > p.maximum[1].i


\* the value the request carries for parameter p at the location p
\* declares: a component of the path, a value of the URL query string, a
\* member of the body
carried(req, p) ==
    CASE p.in = "path" -> lookup(req.path, p.name)
      [] p.in = "query" -> lookup(req.query, p.name)
      [] OTHER -> lookup(req.body, p.name)

\* C20: where a parameter is looked up depends only on its declared
\* location: a query parameter is taken from the URL query string of the
\* request whatever the method (GET, POST, PUT, PATCH, DELETE), a path
\* parameter from the component the router extracted and a body parameter
\* from the decoded JSON or form body; the value carried there is the one
\* that is checked and that fills the slot.
C20_DeclaredLocation ==
    \A hid \in Handlers :
       served(hid) =>
          \A i \in 1 .. Len(Endpoints[rq[hid].e].params) :
             LET ep == Endpoints[rq[hid].e]
                 p == ep.params[i]
                 req == rq[hid].req
                 r == isSuitable(ep, p, noValueIsTrue(req, p, carried(req, p)))
             IN  (reached(hid, i) /\ ~absent(req, p))
                    => /\ accepted(hid, i) <=> r.err = ""
                       /\ rq[hid].status # 400 => rq[hid].params[i] = r.v


\* x is NaN or an infinity
notANumber(x) == IsNaN(x) \/ IsInf(x)

\* the elements of an array input, each as a value of type any
elements(v) ==
    CASE v.t = "[]any" -> v.a
      [] v.t = "[]string" -> [j \in 1 .. Len(v.a) |-> String(v.a[j])]
      [] OTHER -> <<>>

\* C21: a number parameter, and a number element of an array parameter,
\* rejects NaN and the infinities with 400, whether the input is a native
\* float or a decimal string such as "NaN" or "Inf", and whether or not a
\* minimum or a maximum is declared.
C21_RejectsNaNInf ==
    \A hid \in Handlers :
       served(hid) =>
          \A i \in 1 .. Len(Endpoints[rq[hid].e].params) :
             LET p == Endpoints[rq[hid].e].params[i]
                 v == input(hid, i)
             IN  /\ (/\ p.type = "number" /\ p.enum = <<>>
                     /\ reached(hid, i)
                     /\ numeric(v).ok /\ notANumber(numeric(v).f))
                       => ~accepted(hid, i)
                 /\ (/\ p.type = "array" /\ p.elemType = "number"
                     /\ reached(hid, i)
                     /\ \E j \in 1 .. Len(elements(v)) :
                           /\ numeric(elements(v)[j]).ok
                           /\ notANumber(numeric(elements(v)[j]).f))
                       => ~accepted(hid, i)


(***************************************************************************)
(* Statements and transactions                                             *)
(***************************************************************************)
\* handler hid has answered a request to an exec endpoint that passed the
\* parameter checks
execDone(hid) ==
    /\ rq[hid].pc = "done" /\ rq[hid].status # 400
    /\ Endpoints[rq[hid].e].impl = "exec"

\* C22: an exec endpoint answers 200 with {rowsAffected: n} only when the
\* statement and, with transaction options, the commit both succeeded; on
\* every failure (acquire, statement, timeout, commit) it answers 500 with
\* a JSON body whose rowsAffected is 0 and whose error is not empty.
C22_ExecResponse ==
    \A hid \in Handlers :
       execDone(hid) =>
          /\ rq[hid].status \in {200, 500}
          /\ rq[hid].status = 200 <=> rq[hid].fail = ""
          /\ rq[hid].status = 200 =>
                /\ Contains(rq[hid].txlog, "sql")
                /\ Endpoints[rq[hid].e].tx => Contains(rq[hid].txlog, "commit")
                /\ rq[hid].body = ExecResult(rq[hid].rows, "")
          /\ rq[hid].status = 500 =>
                /\ rq[hid].body.kind = "execResult"
                /\ rq[hid].body.rowsAffected = 0
                /\ rq[hid].body.error # ""


\* how often x occurs in the sequence s
count(s, x) == Cardinality({i \in 1 .. Len(s) : s[i] = x})

quiet ==
    /\ \A hid \in Handlers : rq[hid].pc \in {"idle", "done"}
    /\ \A id \in RunIds : runs[id].pc \in {"none", "done"}

\* C24: once the script invocations have finished, normally or with an
\* exception, every connection they acquired is back in its pool: no
\* connection of any datasource is out, however often a script acquired
\* one name
C24_ConnectionsReleased ==
    quiet => \A d \in DSNames : conns[d] = 0


\* the handler has run a script and written the response
scriptDone(hid) == rq[hid].pc = "done" /\ rq[hid].ip > 0

\* C25: a script endpoint that finishes without an exception answers by
\* $sys.result alone: 204 and no body for undefined or null, 200 and the
\* string as text/plain for a string, 200 and application/json for an
\* object that is no array, and 500 "unsupported result type from script"
\* for anything else
C25_ResultResponse ==
    \A hid \in Handlers :
       scriptDone(hid) /\ rq[hid].js.thrown = <<>> =>
          LET r == rq[hid].js.result
              b == rq[hid].body
          IN  CASE r.tag \in {"undefined", "null"} ->
                     rq[hid].status = 204 /\ b.text = <<>>
                [] r.tag = "string" ->
                     /\ rq[hid].status = 200
                     /\ b.ct = "text/plain; charset=utf8"
                     /\ b.text = <<r.v>>
                [] r.tag = "object" /\ r.class # "Array" ->
                     /\ rq[hid].status = 200
                     /\ b.ct = "application/json"
                     /\ b.text = <<r.v, "\n">>
                [] OTHER ->
                     /\ rq[hid].status = 500
                     /\ b.text = <<"unsupported result type from script", "\n">>

\* a script that left an array has been answered with 500
C25_Witness ==
    \E hid \in Handlers :
       /\ scriptDone(hid) /\ rq[hid].js.thrown = <<>>
       /\ rq[hid].js.result = JSArray("[foo]")
       /\ rq[hid].status = 500


\* the text of an exception: the string thrown, or the message of the
\* Error object, with or without the name of its class
message(v) == {<<v.v>>, <<"Error: ", v.v>>}

\* C26: a script that throws is answered with 500; the body is the
\* $sys.result it had assigned, as text for a string and as JSON for an
\* object that is no array, and else the message of the exception
C26_ExceptionResponse ==
    \A hid \in Handlers :
       scriptDone(hid) /\ rq[hid].js.thrown # <<>> =>
          LET r == rq[hid].js.result
              b == rq[hid].body
          IN  /\ rq[hid].status = 500
              /\ CASE r.tag = "string" -> b.text = <<r.v>>
                   [] r.tag = "object" /\ r.class # "Array" ->
                        b.text = <<r.v, "\n">>
                   [] OTHER -> b.text \in message(rq[hid].js.thrown[1])


\* the checks of the arguments of $sys.acquire in their order, each with
\* the message thrown when it fails
acquireChecks(args) ==
    << [ok |-> Len(args) \in {1, 2},
        msg |-> "$sys.acquire: needs 1 or 2 arguments"],
       [ok |-> Len(args) = 0 \/ args[1].tag = "string",
        msg |-> "$sys.acquire: first argument must be datasource name (string)"],
       [ok |-> Len(args) = 0 \/ args[1].v # "",
        msg |-> "$sys.acquire: datasource not specified"],
       [ok |-> Len(args) = 0 \/ args[1].v \in DSNames,
        msg |-> "$sys.acquire: unknown datasource"],
       [ok |-> Len(args) < 2 \/ args[2].tag \in {"int", "float64"},
        msg |-> "$sys.acquire: second argument must be timeout in seconds (number)"] >>

\* the handler is about to call $sys.acquire with arguments that fail check i
\* and pass the checks before it
failsAt(hid, i) ==
    /\ rq[hid].pc = "Eval" /\ rq'[hid] # rq[hid]
    /\ rq[hid].ip <= Len(Endpoints[rq[hid].e].script)
    /\ LET st == Endpoints[rq[hid].e].script[rq[hid].ip]
       IN  /\ st.op = "acquire"
           /\ ~acquireChecks(st.args)[i].ok
           /\ \A j \in 1 .. i - 1 : acquireChecks(st.args)[j].ok

\* C27: $sys.acquire checks the number of arguments, that the first is a
\* string, that it is not empty, that it names a datasource and that the
\* second, if any, is a number, in this order: the first check that fails
\* gives the message of the Error thrown, and then no connection leaves a
\* pool and the script holds what it held
C27_AcquireChecks ==
    [][\A hid \in Handlers : \A i \in 1 .. 5 :
          failsAt(hid, i) =>
             LET st == Endpoints[rq[hid].e].script[rq[hid].ip]
             IN  /\ rq'[hid].js.thrown = <<JSError(acquireChecks(st.args)[i].msg)>>
                 /\ conns' = conns
                 /\ rq'[hid].js.conns = rq[hid].js.conns
                 /\ rq'[hid].js.taken = rq[hid].js.taken]_vars

\* a script holding a connection of ds2 called $sys.acquire with a name
\* and a timeout that is no number: the Error is thrown and ds1 is untouched
C27_Witness ==
    \E hid \in Handlers :
       /\ rq[hid].js.thrown = <<JSError(
             "$sys.acquire: second argument must be timeout in seconds (number)")>>
       /\ rq[hid].js.taken["ds2"] = 1
       /\ conns["ds1"] = 0 /\ conns["ds2"] = 1


\* C28: a script starts in a sandbox of its own, where no global is
\* defined, $sys.result is undefined and no connection is held, whatever
\* other invocations did before it or do beside it: two invocations of one
\* script with the same parameters, to which the pools and the database
\* answer the same, get the same response
C28_FreshSandbox ==
    /\ \A hid \in Handlers :
          rq[hid].pc = "Eval" /\ rq[hid].ip = 1 => rq[hid].js = newScriptContext
    /\ \A h1, h2 \in Handlers :
          /\ scriptDone(h1) /\ scriptDone(h2)
          /\ rq[h1].e = rq[h2].e /\ rq[h1].params = rq[h2].params
          /\ rq[h1].js.env = rq[h2].js.env
          => rq[h1].status = rq[h2].status /\ rq[h1].body = rq[h2].body

\* two invocations of the script that reads a global and then sets it have
\* finished, a third one before them: each found the global undefined
C28_Witness ==
    /\ nreq = 3
    /\ \A hid \in Handlers :
          /\ scriptDone(hid) /\ Endpoints[rq[hid].e].uri = "/g"
          /\ rq[hid].js.global
          /\ rq[hid].body.text = <<"fresh">>


(***************************************************************************)
(* Jobs                                                                    *)
(***************************************************************************)
\* C29: after a run of a job has failed, on a statement, an exception of
\* its script or a timeout, the server is as it was: it serves, its pools
\* are open, cron is running and fires every job again, the same one
\* included, and the run has no connection out of a pool
C29_FailedJob ==
    \A id \in RunIds :
       runs[id].pc = "done" /\ runs[id].failed =>
          /\ srv = "serving" /\ cron = "running" /\ bgctx = "live"
          /\ panics = {} /\ \A d \in DSNames : pool[d] = "open"
          /\ (\E x \in RunIds : runs[x].pc = "none") =>
                \A j \in 1 .. Len(CronJobs) : ENABLED cronFire(j)
          /\ \A d \in DSNames : runs[id].out[d] = 0


(***************************************************************************)
(* Configuration                                                           *)
(***************************************************************************)
\* Validate returned a finding that is no warning
hasError == \E i \in 1 .. Len(cv.r) : ~cv.r[i].Warn

\* C30: IsValid returns an error exactly when Validate returns a finding
\* that is no warning, so a configuration with warnings only is accepted;
\* NewAPIServer returns an error and no server exactly for a nil
\* configuration and for one that IsValid rejects, and else a server
C30_ValidIffNoError ==
    /\ {"Validate", "IsValid"} \subseteq cv.called =>
          (cv.valid.n > 0 <=> hasError)
    /\ "NewAPIServer" \in cv.called =>
          /\ cv.new.server <=> cv.new.err = ""
          /\ cv.cfg = NilConfig => ~cv.new.server
          /\ "IsValid" \in cv.called => (cv.new.server <=> cv.valid.n = 0)
          /\ "Validate" \in cv.called => (cv.new.server <=> ~hasError)

\* a configuration with two warnings and no error has been validated and
\* has got its server
C30_Witness ==
    /\ cv.called = {"Validate", "IsValid", "NewAPIServer"}
    /\ Len(cv.r) = 2 /\ \A i \in 1 .. 2 : cv.r[i].Warn
    /\ cv.valid.n = 0 /\ cv.new.server


\* the datasources the configuration's SQL endpoints, streams and exec jobs
\* name
named(c) ==
    {c.endpoints[i].datasource :
        i \in {k \in 1 .. Len(c.endpoints) :
                  c.endpoints[k].impl \in {"query-json", "query-csv", "exec"}}}
    \cup {c.streams[i].datasource : i \in 1 .. Len(c.streams)}
    \cup {c.jobs[i].datasource :
             i \in {k \in 1 .. Len(c.jobs) : c.jobs[k].type = "exec"}}

\* C31: a configuration the validator accepts has pairwise distinct
\* datasource names, and every datasource a SQL endpoint, a stream or an
\* exec job names is declared; after a successful Start datasources.get
\* finds the pool of each of them
C31_DatasourcesResolve ==
    /\ ("NewAPIServer" \in cv.called /\ cv.new.server) =>
          LET ds == cv.cfg.datasources
          IN  /\ \A i, k \in 1 .. Len(ds) : ds[i].name = ds[k].name => i = k
              /\ named(cv.cfg) \subseteq {ds[i].name : i \in 1 .. Len(ds)}
    /\ "Start" \in cv.called =>
          \A n \in named(cv.cfg) : get(cv.pools, n).ok

\* an accepted configuration with a stream, an exec endpoint and an exec
\* job has been started, and the three name two different datasources
C31_Witness ==
    /\ "Start" \in cv.called
    /\ Len(cv.cfg.streams) > 0
    /\ Cardinality(named(cv.cfg)) = 2
    /\ \E i \in 1 .. Len(cv.cfg.endpoints) : cv.cfg.endpoints[i].impl = "exec"
    /\ \E i \in 1 .. Len(cv.cfg.jobs) : cv.cfg.jobs[i].type = "exec"


(***************************************************************************)
(* The registry of a dispatcher                                            *)
(***************************************************************************)
\* the list ws without the writer w
without(ws, w) == LET other(x) == x # w IN SelectSeq(ws, other)

\* the dispatcher of d takes a command from nd.cmd in this step
receives(d) ==
    /\ nd[d].disp.at = "select" /\ nd[d].cmd # <<>>
    /\ nd'[d].cmd = Tail(nd[d].cmd)

\* the registry of d after the step is what the command c makes of it
applies(d, c) ==
    LET old == nd[d].c2ws
        new == nd'[d].c2ws
    IN  CASE c.act = "register" ->
               new = [old EXCEPT ![c.channel] = Append(@, c.writer)]
          [] c.act = "unregister" ->
               /\ Contains(regOrder, c.writer)
               /\ \A ch \in DOMAIN old \ {c.channel} : new[ch] = old[ch]
               /\ ~Contains(new[c.channel], c.writer)
               /\ new[c.channel] = without(old[c.channel], c.writer)
          [] OTHER -> new = old

\* C32: the registry (c2ws) of a dispatcher changes only in a step of the
\* dispatcher goroutine that takes a command from nd.cmd, and then by
\* exactly that command; a handler step only appends a command to nd.cmd;
\* a handler's unregister is applied after its register
C32_RegistryOwnedByDispatcher ==
    [][\A d \in DispDS :
          /\ nd'[d].c2ws # nd[d].c2ws => receives(d)
          /\ receives(d) => applies(d, Head(nd[d].cmd))
          /\ (\E c \in Clients : h'[c] # h[c]) =>
                /\ nd'[d].c2ws = nd[d].c2ws
                /\ nd'[d].cmd = nd[d].cmd
                   \/ \E c \in Clients :
                        /\ h'[c] # h[c]
                        /\ nd'[d].cmd # nd[d].cmd =>
                              /\ Len(nd'[d].cmd) = Len(nd[d].cmd) + 1
                              /\ nd'[d].cmd[Len(nd'[d].cmd)].writer = c
                              /\ nd'[d].cmd[Len(nd'[d].cmd)].act
                                    \in {"register", "unregister"}]_vars

\* the register and the unregister of client 1 have both been applied
\* while client 2 stays in the registry of the same channel
C32_Witness ==
    /\ Contains(regOrder, 1) /\ h[1].pc = "done"
    /\ \E d \in DispDS :
          /\ nd[d].cmd = <<>>
          /\ \E ch \in DOMAIN nd[d].c2ws :
                Contains(nd[d].c2ws[ch], 2) /\ ~Contains(nd[d].c2ws[ch], 1)
                   /\ stream(1).channel = ch /\ stream(1).ds = d


(***************************************************************************)
(* The SSE response                                                        *)
(***************************************************************************)
\* the clients that requested an SSE stream
sse(c) == sc.clients[c] # "none" /\ stream(c).type = "sse"

\* C33: what loopSSE writes starts with the initial comment (written as 0),
\* every data event comes after it, and nothing is written before the loop
\* starts; payloads that were queued when the loop started are written
\* after the comment in the order the subscriber received them, none
\* skipped (as long as the queue never overflowed)
C33_CommentFirst ==
    \A c \in Clients :
       sse(c) =>
          /\ h[c].pc \in {"idle", "registered"} => written[c] = <<>>
          /\ written[c] # <<>> =>
                /\ written[c][1] = 0
                /\ \A i \in 2 .. Len(written[c]) : written[c][i] > 0
          /\ IsPrefix(payloads(written[c]), offered[c])
          /\ (h[c].pc = "loop" /\ Len(offered[c]) <= notifWriterBacklog) =>
                payloads(written[c]) \o nw[c].q = offered[c]

\* the loop of an SSE subscriber started with payloads queued: it has
\* written the comment and nothing else, and the payloads are in the queue
C33_Witness ==
    \E c \in Clients :
       /\ sse(c) /\ h[c].early /\ h[c].pc = "loop"
       /\ written[c] = <<0>> /\ nw[c].q # <<>> /\ nw[c].q = offered[c]


(***************************************************************************)
(* Start and Stop                                                          *)
(***************************************************************************)
\* Start was never called, or it returned an error
notStarted == startPc = "new" \/ (startPc = "done" /\ startErr # "nil")

\* everything of the server but the position and the result of Stop
serverState == <<startPc, startErr, dsIdx, attempted, pool, bgctx, cron, srv,
                 stopLog, jobPc, ndVars, subVars, panics>>

\* C35: a call of Stop on a server whose Start was never called or returned
\* an error returns nil in its first step and changes nothing of the
\* server: no teardown step is performed; such a server has no a.srv
C35_StopWithoutStart ==
    /\ [](notStarted => (srv = "nil" /\ stopLog = <<>> /\ stopPc \in {"idle", "done"}
                         /\ stopErr \in {"none", "nil"}))
    /\ [][(notStarted /\ stopPc' # stopPc) =>
             /\ stopPc' = "done" /\ stopErr' = "nil"
             /\ UNCHANGED serverState]_vars

\* Start failed at the listener (address in use), after the pools, the
\* dispatchers and the cron were started, and Stop has then returned nil
C35_Witness ==
    /\ startErr = "listen"
    /\ stopPc = "done" /\ stopErr = "nil"
    /\ cron = "running"


(***************************************************************************)
(* Fan-out by datasource and channel                                       *)
(***************************************************************************)
\* C36: a payload is offered to a subscriber only by the dispatcher of the
\* datasource of the subscriber's stream, only while that dispatcher fans
\* out a notification of the stream's channel, and only once the
\* subscriber's register was applied; the list of a channel holds only
\* subscribers of streams on that datasource and channel
C36_OwnChannelOnly ==
    /\ [](\A d \in DispDS : \A ch \in ds2pgchans[d] :
             \A i \in 1 .. Len(nd[d].c2ws[ch]) :
                LET c == nd[d].c2ws[ch][i]
                IN  stream(c).ds = d /\ stream(c).channel = ch)
    /\ [][\A c \in Clients :
             offered'[c] # offered[c] =>
                \E d \in DispDS :
                   /\ nd[d].disp.at = "accept"
                   /\ stream(c).ds = d
                   /\ stream(c).channel = nd[d].disp.n.channel
                   /\ Contains(regOrder, c)
                   /\ offered'[c] = Append(offered[c], nd[d].disp.n.payload)
                   /\ \A e \in Clients \ {c} : offered'[e] = offered[e]]_vars

\* every notification has been sent and dispatched; the first subscriber
\* of chansse on ds1, offered the first one and still registered, was not
\* offered the second one (of another channel or another datasource)
C36_Witness ==
    /\ sc.name = "stalled" /\ nsent = FewNotifs
    /\ offered[1] = <<1>>
    /\ Contains(nd["ds1"].c2ws["chansse"], 1)
    /\ \A d \in DispDS : /\ nd[d].inq = <<>> /\ nd[d].disp.at = "select"
                         /\ nd[d].fetch.at = "wait"


(***************************************************************************)
(* The registry and the handlers                                           *)
(***************************************************************************)
\* the unregister command of the writer c is waiting in nd.cmd of d
unregisterPending(d, c) ==
    \E i \in 1 .. Len(nd[d].cmd) :
       nd[d].cmd[i].act = "unregister" /\ nd[d].cmd[i].writer = c

\* the handler of c is between its register and its unregister: the loop
\* is about to start, is running, or has returned and serveStream is about
\* to send unregister
handlerOpen(c) == h[c].pc \in {"registered", "loop", "exited"}

\* C37 (as claimed): while Stop has not been called, the registry of a
\* dispatcher holds only subscribers whose handler is still in or around
\* its loop or whose unregister command is pending, so it holds no more
\* subscribers than there are open stream connections
C37_RegistryHoldsOpenOnly ==
    stopPc = "idle" =>
       /\ \A d \in DispDS : \A ch \in ds2pgchans[d] :
             \A i \in 1 .. Len(nd[d].c2ws[ch]) :
                LET c == nd[d].c2ws[ch][i]
                IN  handlerOpen(c) \/ unregisterPending(d, c)
       /\ \A d \in DispDS :
             LET held == UNION {{nd[d].c2ws[ch][i] : i \in 1 .. Len(nd[d].c2ws[ch])} :
                                   ch \in ds2pgchans[d]}
             IN  Cardinality(held) <=
                    Cardinality({c \in Clients : handlerOpen(c)
                                                    \/ unregisterPending(d, c)})


(***************************************************************************)
(* Sends on closed channels                                                *)
(***************************************************************************)
\* C38 (as claimed): while Stop runs, no goroutine sends on a closed
\* channel: the fetcher never sends on nd.in after stop closed it, and no
\* handler sends a register or unregister command on nd.cmd after stop
\* closed it
C38_NoSendOnClosed ==
    /\ "fetcher: send on closed channel" \notin panics
    /\ "handler: send on closed channel" \notin panics
    /\ \A d \in DispDS : nd[d].inClosed => nd[d].fetch.at # "send"


\* Start has returned an error
startFailed == startPc = "done" /\ startErr \notin {"none", "nil"}

\* C39 (as claimed): once Start has returned an error, no pool is open, no
\* hijacked connection is open, no dispatcher goroutine is running, no
\* fetcher is running on an open connection (a fetcher whose connection was
\* closed is on its way out), and the cron is not running
C39_FailedStartLeavesNothing ==
    startFailed =>
       /\ \A d \in DSNames : pool[d] # "open"
       /\ \A d \in DispDS :
             /\ nd[d].conn # "open"
             /\ nd[d].disp.at \in {"off", "exit"}
             /\ nd[d].fetch.at \in {"off", "exit"} \/ nd[d].conn = "closed"
       /\ cron # "running"


\* C40 (as claimed): on a started server, once a call of Stop has returned
\* nil a.srv is nil and a further call changes nothing and returns nil; a
\* call after a call that returned the HTTP shutdown's timeout error stops
\* no dispatcher that is already stopped, and neither sends on nor closes
\* a closed channel
C40_RepeatedStop ==
    /\ []((startErr = "nil" /\ stopPc = "done" /\ stopErr = "nil") => srv = "nil")
    /\ [][(startErr = "nil" /\ stopPc = "done" /\ stopErr = "nil") =>
             /\ stopPc' = "done" /\ stopErr' = "nil"
             /\ UNCHANGED <<pool, bgctx, cron, srv, stopLog, ndStored,
                            stopCur, stopSeen>>]_vars
    /\ [][\A d \in DispDS :
             (stopCur' = d /\ stopCur # d) => ~nd[d].cmdClosed]_vars
    /\ [](/\ "stop: send on closed channel" \notin panics
          /\ "stop: close of closed channel" \notin panics)


(***************************************************************************)
(* The dispatcher and subscribers that do not read                         *)
(***************************************************************************)
\* the dispatcher goroutine of d is running
dispatching(d) == nd[d].disp.at \in {"select", "accept", "closeQ"}

\* the dispatcher of d has something to do: it is inside a fan-out, or a
\* command or a notification waits in its channels
busy(d) == dispatching(d) /\ (inAccept(d) \/ nd[d].cmd # <<>> \/ nd[d].inq # <<>>)

\* the dispatcher of d has taken every command, and is out of the fan-out
\* with nd.in empty or has returned
settled(d) ==
    /\ nd[d].cmd = <<>>
    /\ ~inAccept(d)
    /\ nd[d].inq = <<>> \/ ~dispatching(d)

\* C34: whatever the subscribers do (no handler is assumed to take a
\* step), a running dispatcher that is inside a fan-out or has a command
\* or a notification waiting gets to a state where the fan-out is over,
\* every command sent so far is taken and nd.in is empty (unless the
\* process dies first)
C34_DispatcherNeverWaits ==
    \A d \in DispDS : busy(d) ~> (settled(d) \/ crashed)

\* of two subscribers of one channel the first has read nothing, its loop
\* still running, and the second has been written every notification
C34_Witness ==
    /\ sc.name = "stalled" /\ nsent = FewNotifs
    /\ h[1].pc = "loop" /\ payloads(written[1]) = <<>> /\ Len(nw[1].q) = FewNotifs
    /\ Len(payloads(written[2])) = FewNotifs
    /\ \A d \in DispDS : nd[d].cmd = <<>> /\ nd[d].disp.at = "select"

====
